---- MODULE Spec2Model ----
(***************************************************************************)
(* A model of aumai-jaldrishti (src/src/aumai_jaldrishti/core.py and       *)
(* models.py): the water-quality analyzer, the source registry, the JJM    *)
(* tracker, the groundwater monitor, the rainfall analyzer, the water      *)
(* budget planner and the alert engine, each under a specification of its  *)
(* own.                                                                    *)
(*                                                                         *)
(* Numbers.  The program computes on Python floats.  The model keeps every *)
(* quantity as an integer in a fixed unit, so that each comparison of the  *)
(* code is an exact integer comparison:                                    *)
(*   - water-quality parameters (pH, ppm, NTU, ppb): tenths of the unit,   *)
(*     so pH 6.5 is 65 and TDS 500 ppm is 5000;                            *)
(*   - depths: millimetres, so 40 m is 40000 and 2 m is 2000;              *)
(*   - volumes per day and head counts: units (the supply given to         *)
(*     lpcd_check: tenths of a litre);                                     *)
(*   - percentages and rainfall deviations: tenths of a percent, so -40 %  *)
(*     is -400 and a yield of 39.96 % rounds to 400;                       *)
(*   - rainfall: hundredths of a millimetre, so 400 mm is 40000;           *)
(*   - irrigated area: hundredths of a hectare.                            *)
(* round(x, n) is RoundHalfEven on the exact quotient.                     *)
(***************************************************************************)
EXTENDS Integers, Sequences, FiniteSets, TLC

VARIABLES
    alert_counter,  \* AlertEngine._alert_counter (SpecEngines: per instance)
    issued,         \* history: every alert_id _next_id has returned, in order
    sources,        \* SourceManager._sources, as the dict's items in insertion order
    gw_records,     \* GroundwaterMonitor._records
    jjm_records,    \* JJMTracker._records, as the dict's items in insertion order
    rain_records,   \* RainfallAnalyzer._records
    call,           \* the operation called last and its arguments
    ret,            \* what that operation returned
    pc              \* "ready": nothing called yet; "called": call is about to
                    \* run; "returned": call has run and ret is its result

vars == <<alert_counter, issued, sources, gw_records, jjm_records, rain_records,
          call, ret, pc>>

\* The operation called last was op and it has run.
Checked(op) == pc = "returned" /\ call.op = op

(***************************************************************************)
(* models.py: the enumerations.                                            *)
(***************************************************************************)
SAFE == "safe"
ACCEPTABLE == "acceptable"
CONTAMINATED == "contaminated"
HAZARDOUS == "hazardous"
WaterQualityGrade == {SAFE, ACCEPTABLE, CONTAMINATED, HAZARDOUS}

PRE_MONSOON == "pre_monsoon"
MONSOON == "monsoon"
POST_MONSOON == "post_monsoon"
WINTER == "winter"
SeasonType == {PRE_MONSOON, MONSOON, POST_MONSOON, WINTER}

INFO == "info"
WARNING == "warning"
CRITICAL == "critical"
EMERGENCY == "emergency"
AlertLevel == {INFO, WARNING, CRITICAL, EMERGENCY}

(***************************************************************************)
(* core.py: the BIS 10500:2012 table, in tenths of each unit.              *)
(***************************************************************************)
BIS_LIMITS ==
    [ ph_min |-> 65, ph_max |-> 85,
      tds_acceptable |-> 5000, tds_permissible |-> 20000,
      turbidity_acceptable |-> 10, turbidity_permissible |-> 50,
      chloride_acceptable |-> 2500, chloride_permissible |-> 10000,
      fluoride_acceptable |-> 10, fluoride_permissible |-> 15,
      arsenic_max_ppb |-> 100,
      iron_acceptable |-> 3, iron_permissible |-> 10,
      nitrate_max |-> 450 ]

\* The literals 5.0 and 9.5 of grade_report's pH test, in tenths.
PhHazardousLow == 50
PhHazardousHigh == 95

(***************************************************************************)
(* The reports the model grades: every field takes a value on each side    *)
(* of each of its thresholds (pH within the validated range [0, 14]).      *)
(***************************************************************************)
PhValues == {49, 50, 64, 65, 85, 86, 95, 96}
TdsValues == {5000, 5001, 20000, 20001}
TurbidityValues == {10, 11, 50, 51}
ChlorideValues == {2500, 2501}
FluorideValues == {10, 11, 15, 16}
ArsenicValues == {100, 101}
IronValues == {3, 4, 10, 11}
NitrateValues == {450, 451}

Reports ==
    [ report_id : {"R1"}, source_id : {"S1"}, test_date : {"2024-01-15"},
      ph : PhValues, tds_ppm : TdsValues, turbidity_ntu : TurbidityValues,
      chloride_ppm : ChlorideValues, fluoride_ppm : FluorideValues,
      arsenic_ppb : ArsenicValues, iron_ppm : IronValues,
      nitrate_ppm : NitrateValues, coliform_present : BOOLEAN,
      grade : WaterQualityGrade ]

(***************************************************************************)
(* WaterQualityAnalyzer.grade_report.  The two accumulators are computed   *)
(* over all parameters, with no early return, and combined afterwards.     *)
(***************************************************************************)
\* grade_report without its coliform test.
HazardousFlagNoColiform(report) ==
    \/ report.ph < PhHazardousLow \/ report.ph > PhHazardousHigh
    \/ report.tds_ppm > BIS_LIMITS.tds_permissible
    \/ report.fluoride_ppm > BIS_LIMITS.fluoride_permissible
    \/ report.arsenic_ppb > BIS_LIMITS.arsenic_max_ppb
    \/ report.nitrate_ppm > BIS_LIMITS.nitrate_max

HazardousFlag(report) ==
    \/ report.ph < PhHazardousLow \/ report.ph > PhHazardousHigh
    \/ report.tds_ppm > BIS_LIMITS.tds_permissible
    \/ report.fluoride_ppm > BIS_LIMITS.fluoride_permissible
    \/ report.arsenic_ppb > BIS_LIMITS.arsenic_max_ppb
    \/ report.nitrate_ppm > BIS_LIMITS.nitrate_max
    \/ report.coliform_present

ContaminatedFlag(report) ==
    \/ /\ ~(report.ph < PhHazardousLow \/ report.ph > PhHazardousHigh)
       /\ (report.ph < BIS_LIMITS.ph_min \/ report.ph > BIS_LIMITS.ph_max)
    \/ /\ ~(report.tds_ppm > BIS_LIMITS.tds_permissible)
       /\ report.tds_ppm > BIS_LIMITS.tds_acceptable
    \/ report.turbidity_ntu > BIS_LIMITS.turbidity_permissible
    \/ /\ ~(report.fluoride_ppm > BIS_LIMITS.fluoride_permissible)
       /\ report.fluoride_ppm > BIS_LIMITS.fluoride_acceptable
    \/ report.iron_ppm > BIS_LIMITS.iron_permissible

\* The final test with < for <=: a value on its acceptable bound fails it.
AllAcceptableStrict(report) ==
    /\ report.tds_ppm < BIS_LIMITS.tds_acceptable
    /\ report.turbidity_ntu < BIS_LIMITS.turbidity_acceptable
    /\ report.fluoride_ppm < BIS_LIMITS.fluoride_acceptable
    /\ report.iron_ppm < BIS_LIMITS.iron_acceptable

AllAcceptable(report) ==
    /\ report.tds_ppm <= BIS_LIMITS.tds_acceptable
    /\ report.turbidity_ntu <= BIS_LIMITS.turbidity_acceptable
    /\ report.fluoride_ppm <= BIS_LIMITS.fluoride_acceptable
    /\ report.iron_ppm <= BIS_LIMITS.iron_acceptable

\* The two accumulators combined in the wrong order.
grade_report_contaminated_first(report) ==
    IF ContaminatedFlag(report) THEN CONTAMINATED
    ELSE IF HazardousFlag(report) THEN HAZARDOUS
    ELSE IF AllAcceptable(report) THEN SAFE
    ELSE ACCEPTABLE

\* grade_report that returns the report's pre-populated grade.
grade_report_trusting(report) == report.grade

grade_report(report) ==
    IF HazardousFlag(report) THEN HAZARDOUS
    ELSE IF ContaminatedFlag(report) THEN CONTAMINATED
    ELSE IF AllAcceptable(report) THEN SAFE
    ELSE ACCEPTABLE

(***************************************************************************)
(* models.py, GroundwaterLevel.  Depths are millimetres.  change_meters    *)
(* rounds the difference to 2 decimals, that is to the nearest 10 mm;      *)
(* Python rounds an exact tie to the even neighbour.                       *)
(***************************************************************************)
RoundHalfEven(x, m) ==
    LET q == x \div m
        r == x % m
    IN  IF 2 * r < m THEN q * m
        ELSE IF 2 * r > m THEN (q + 1) * m
        ELSE IF q % 2 = 0 THEN q * m ELSE (q + 1) * m

\* change_meters without its rounding.
change_meters_unrounded(record) ==
    record.depth_meters - record.previous_year_depth

change_meters(record) ==
    RoundHalfEven(record.depth_meters - record.previous_year_depth, 10)

is_declining(record) == record.depth_meters > record.previous_year_depth

(***************************************************************************)
(* core.py, AlertEngine.  _next_id increments the counter and formats it   *)
(* with "ALERT-{:04d}": the decimal digits, zero-padded on the left to at  *)
(* least 4.                                                                *)
(***************************************************************************)
JJM_LPCD_STANDARD == 55

RECURSIVE Digits(_)
Digits(n) == IF n < 10 THEN <<n>> ELSE Append(Digits(n \div 10), n % 10)

RECURSIVE ZeroPad(_, _)
ZeroPad(ds, width) == IF Len(ds) >= width THEN ds ELSE ZeroPad(<<0>> \o ds, width)

FormatAlertId(n) == [prefix |-> "ALERT-", digits |-> ZeroPad(Digits(n), 4)]

\* _next_id that formats the counter without incrementing it.
next_id_no_increment(counter) ==
    [counter |-> counter, alert_id |-> FormatAlertId(counter)]

next_id(counter) ==
    [counter |-> counter + 1, alert_id |-> FormatAlertId(counter + 1)]

WaterAlert(alert_id, panchayat_id, level, category, message, source_id, date) ==
    [ source_id |-> source_id, alert_id |-> alert_id,
      panchayat_id |-> panchayat_id, level |-> level,
      category |-> category, message |-> message,
      date |-> date, is_active |-> TRUE ]

\* Each check returns the alerts and the counter it leaves behind.
\* check_quality that trusts the report's pre-populated grade.
check_quality_trusting(counter, report) ==
    LET grade == report.grade
        id == next_id(counter)
    IN  IF grade = HAZARDOUS THEN
            [ counter |-> id.counter,
              alerts |-> << WaterAlert(id.alert_id, "", EMERGENCY, "water_quality",
                              <<"HAZARDOUS water quality at source", report.source_id>>,
                              report.source_id, report.test_date) >> ]
        ELSE IF grade = CONTAMINATED THEN
            [ counter |-> id.counter,
              alerts |-> << WaterAlert(id.alert_id, "", WARNING, "water_quality",
                              <<"Contaminated water at source", report.source_id>>,
                              report.source_id, report.test_date) >> ]
        ELSE [counter |-> counter, alerts |-> <<>>]

check_quality(counter, report) ==
    LET grade == grade_report(report)
        id == next_id(counter)
    IN  IF grade = HAZARDOUS THEN
            [ counter |-> id.counter,
              alerts |-> << WaterAlert(id.alert_id, "", EMERGENCY, "water_quality",
                              <<"HAZARDOUS water quality at source", report.source_id>>,
                              report.source_id, report.test_date) >> ]
        ELSE IF grade = CONTAMINATED THEN
            [ counter |-> id.counter,
              alerts |-> << WaterAlert(id.alert_id, "", WARNING, "water_quality",
                              <<"Contaminated water at source", report.source_id>>,
                              report.source_id, report.test_date) >> ]
        ELSE [counter |-> counter, alerts |-> <<>>]

\* The depth alert of check_groundwater: lines 416-425.
depth_alert(counter, record) ==
    LET id == next_id(counter)
    IN  IF record.depth_meters > 40000 THEN
            [ counter |-> id.counter,
              alerts |-> << WaterAlert(id.alert_id, record.panchayat_id, CRITICAL,
                              "groundwater",
                              <<"Groundwater critically deep", record.depth_meters>>,
                              "", "") >> ]
        ELSE IF record.depth_meters > 20000 THEN
            [ counter |-> id.counter,
              alerts |-> << WaterAlert(id.alert_id, record.panchayat_id, WARNING,
                              "groundwater",
                              <<"Groundwater declining", record.depth_meters>>,
                              "", "") >> ]
        ELSE [counter |-> counter, alerts |-> <<>>]

\* The trend test of check_groundwater: line 426.
trend_triggered(record) ==
    is_declining(record) /\ change_meters(record) > 2000

check_groundwater(counter, record) ==
    LET first == depth_alert(counter, record)
        id == next_id(first.counter)
    IN  IF trend_triggered(record) THEN
            [ counter |-> id.counter,
              alerts |-> Append(first.alerts,
                            WaterAlert(id.alert_id, record.panchayat_id, WARNING,
                                "groundwater_trend",
                                <<"Groundwater dropped", change_meters(record)>>,
                                "", "")) ]
        ELSE first

\* total_supply_lpd / population, kept as an exact fraction (den # 0).
Ratio(num, den) == [num |-> num, den |-> den]

\* <= for <.
RatioLessOrEqual(q, k) ==
    IF q.den > 0 THEN q.num <= k * q.den ELSE q.num >= k * q.den

\* q < k for a fraction q and an integer k.
RatioLess(q, k) ==
    IF q.den > 0 THEN q.num < k * q.den ELSE q.num > k * q.den

check_supply(counter, population, total_supply_lpd) ==
    IF population = 0 THEN [counter |-> counter, alerts |-> <<>>]
    ELSE
        LET lpcd == Ratio(total_supply_lpd, population)
            id == next_id(counter)
        IN  IF RatioLess(lpcd, 27) THEN
                [ counter |-> id.counter,
                  alerts |-> << WaterAlert(id.alert_id, "", EMERGENCY, "supply",
                                  <<"Severe water scarcity", lpcd>>, "", "") >> ]
            ELSE IF RatioLess(lpcd, JJM_LPCD_STANDARD) THEN
                [ counter |-> id.counter,
                  alerts |-> << WaterAlert(id.alert_id, "", WARNING, "supply",
                                  <<"Water supply below JJM standard", lpcd>>, "", "") >> ]
            ELSE [counter |-> counter, alerts |-> <<>>]

\* check_rainfall with < for <= and > for >=.
check_rainfall_strict(counter, panchayat_id, deviation_pct) ==
    LET id == next_id(counter)
    IN  IF deviation_pct < -400 THEN
            [ counter |-> id.counter,
              alerts |-> << WaterAlert(id.alert_id, panchayat_id, CRITICAL, "drought",
                              <<"Drought conditions", deviation_pct>>, "", "") >> ]
        ELSE IF deviation_pct > 600 THEN
            [ counter |-> id.counter,
              alerts |-> << WaterAlert(id.alert_id, panchayat_id, CRITICAL, "flood",
                              <<"Flood risk", deviation_pct>>, "", "") >> ]
        ELSE [counter |-> counter, alerts |-> <<>>]

\* deviation_pct is in tenths of a percent.
check_rainfall(counter, panchayat_id, deviation_pct) ==
    LET id == next_id(counter)
    IN  IF deviation_pct <= -400 THEN
            [ counter |-> id.counter,
              alerts |-> << WaterAlert(id.alert_id, panchayat_id, CRITICAL, "drought",
                              <<"Drought conditions", deviation_pct>>, "", "") >> ]
        ELSE IF deviation_pct >= 600 THEN
            [ counter |-> id.counter,
              alerts |-> << WaterAlert(id.alert_id, panchayat_id, CRITICAL, "flood",
                              <<"Flood risk", deviation_pct>>, "", "") >> ]
        ELSE [counter |-> counter, alerts |-> <<>>]

(***************************************************************************)
(* core.py, SourceManager.  _sources is a dict keyed by source_id; the     *)
(* model keeps its values in insertion order, which is the order a Python  *)
(* dict iterates in.  Assigning to a key the dict holds replaces the value *)
(* in place; assigning to a new key appends.                               *)
(***************************************************************************)
RECURSIVE SumSeq(_)
SumSeq(xs) == IF xs = <<>> THEN 0 ELSE xs[1] + SumSeq(Tail(xs))

\* register that appends whatever the id (a list in the place of the dict).
register_append(srcs, source) == Append(srcs, source)

\* register that leaves an id already present as it is (dict.setdefault).
register_keep_first(srcs, source) ==
    IF \E i \in 1..Len(srcs) : srcs[i].source_id = source.source_id
    THEN srcs
    ELSE Append(srcs, source)

register(srcs, source) ==
    IF \E i \in 1..Len(srcs) : srcs[i].source_id = source.source_id
    THEN [i \in 1..Len(srcs) |->
             IF srcs[i].source_id = source.source_id THEN source ELSE srcs[i]]
    ELSE Append(srcs, source)

by_panchayat(srcs, panchayat_id) ==
    LET InUnit(s) == s.panchayat_id = panchayat_id
    IN  SelectSeq(srcs, InUnit)

functional_sources(srcs, panchayat_id) ==
    LET Functional(s) == s.is_functional
    IN  SelectSeq(by_panchayat(srcs, panchayat_id), Functional)

\* total_supply_lpd summed over by_panchayat instead of functional_sources.
total_supply_lpd_all_sources(srcs, panchayat_id) ==
    LET unit == by_panchayat(srcs, panchayat_id)
    IN  SumSeq([i \in 1..Len(unit) |-> unit[i].current_yield_lpd])

total_supply_lpd(srcs, panchayat_id) ==
    LET functional == functional_sources(srcs, panchayat_id)
    IN  SumSeq([i \in 1..Len(functional) |-> functional[i].current_yield_lpd])

(***************************************************************************)
(* core.py, GroundwaterMonitor.declining_trend.  list.sort is stable: an   *)
(* insertion sort that moves a record only past records of a strictly      *)
(* greater year gives the same order.                                      *)
(***************************************************************************)
RECURSIVE InsertByYear(_, _)
InsertByYear(sorted, record) ==
    IF sorted = <<>> THEN <<record>>
    ELSE IF sorted[Len(sorted)].year <= record.year THEN Append(sorted, record)
    ELSE Append(InsertByYear(SubSeq(sorted, 1, Len(sorted) - 1), record),
                sorted[Len(sorted)])

RECURSIVE SortByYear(_)
SortByYear(records) ==
    IF records = <<>> THEN <<>>
    ELSE InsertByYear(SortByYear(SubSeq(records, 1, Len(records) - 1)),
                      records[Len(records)])

\* The Python slice xs[start:].
SliceFrom(xs, start) ==
    LET from == IF start < 0
                THEN (IF Len(xs) + start < 0 THEN 0 ELSE Len(xs) + start)
                ELSE (IF start > Len(xs) THEN Len(xs) ELSE start)
    IN  SubSeq(xs, from + 1, Len(xs))

declining_trend(all_records, panchayat_id, years) ==
    LET PreMonsoon(r) == r.panchayat_id = panchayat_id /\ r.season = PRE_MONSOON
        records == SortByYear(SelectSeq(all_records, PreMonsoon))
        recent == IF Len(records) >= years THEN SliceFrom(records, -years)
                  ELSE records
    IN  IF Len(recent) < 2 THEN FALSE
        ELSE \A i \in 2..Len(recent) :
                recent[i].depth_meters > recent[i - 1].depth_meters

(***************************************************************************)
(* The state after construction: an engine that has issued nothing, an     *)
(* empty registry and an empty monitor.                                    *)
(***************************************************************************)
Init ==
    /\ alert_counter = 0
    /\ issued = <<>>
    /\ sources = <<>>
    /\ gw_records = <<>>
    /\ jjm_records = <<>>
    /\ rain_records = <<>>
    /\ call = [op |-> "init"]
    /\ ret = <<>>
    /\ pc = "ready"

(***************************************************************************)
(* WaterQualityAnalyzer is stateless: grade_report is a function of its    *)
(* argument.  The specification starts with a call on any report of        *)
(* Reports and its one action runs it.                                     *)
(***************************************************************************)
InitQuality ==
    /\ alert_counter = 0
    /\ issued = <<>>
    /\ sources = <<>>
    /\ gw_records = <<>>
    /\ jjm_records = <<>>
    /\ rain_records = <<>>
    /\ call \in [op : {"grade_report"}, report : Reports]
    /\ ret = <<>>
    /\ pc = "called"

GradeReportCall ==
    /\ pc = "called"
    /\ call.op = "grade_report"
    /\ ret' = grade_report(call.report)
    /\ pc' = "returned"
    /\ UNCHANGED <<alert_counter, issued, sources, gw_records, call, jjm_records, rain_records>>

NextQuality == GradeReportCall

SpecQuality == InitQuality /\ [][NextQuality]_vars

(***************************************************************************)
(* One AlertEngine.  Every check may be called at any time on any input of *)
(* the sets below; MaxAlerts caps the counter, which the code does not.    *)
(***************************************************************************)
MaxAlerts == 4

EngineReports ==
    [ report_id : {"R1"}, source_id : {"S1", "S2"},
      test_date : {"2024-01-15", "2024-02-20"},
      ph : {64, 65, 96}, tds_ppm : {5000, 5001}, turbidity_ntu : {10, 11},
      chloride_ppm : {2500}, fluoride_ppm : {10, 16}, arsenic_ppb : {100},
      iron_ppm : {3}, nitrate_ppm : {450}, coliform_present : BOOLEAN,
      grade : {SAFE, HAZARDOUS} ]

\* Readings on both sides of 20 m and 40 m, with yearly changes of 2.000,
\* 2.004 and 2.006 m (no change is an exact rounding tie).
EngineReadings ==
    [ panchayat_id : {"GP001"}, season : {PRE_MONSOON}, year : {2024},
      depth_meters : {10000, 12000, 12004, 12006, 20000, 20004,
                      40000, 40004, 42006},
      previous_year_depth : {10000, 38000, 40000} ]

Populations == {0, 1, 3, 1000}
Supplies == {0, 26, 27, 54, 55, 80, 81, 164, 165, 26999, 27000, 54999, 55000}
Deviations == {-401, -400, -399, 0, 599, 600, 601}
PanchayatIds == {"GP001", "GP002"}

AlertIds(alerts) == [i \in 1..Len(alerts) |-> alerts[i].alert_id]

Returns(result) ==
    /\ alert_counter' = result.counter
    /\ issued' = issued \o AlertIds(result.alerts)
    /\ ret' = result.alerts
    /\ pc' = "returned"
    /\ UNCHANGED <<sources, gw_records, jjm_records, rain_records>>

CheckQuality ==
    /\ alert_counter < MaxAlerts
    /\ \E report \in EngineReports :
        /\ call' = [op |-> "check_quality", report |-> report]
        /\ Returns(check_quality(alert_counter, report))

CheckGroundwater ==
    /\ alert_counter < MaxAlerts
    /\ \E record \in EngineReadings :
        /\ call' = [op |-> "check_groundwater", record |-> record]
        /\ Returns(check_groundwater(alert_counter, record))

CheckSupply ==
    /\ alert_counter < MaxAlerts
    /\ \E population \in Populations, supply \in Supplies :
        /\ call' = [op |-> "check_supply", population |-> population,
                    total_supply_lpd |-> supply]
        /\ Returns(check_supply(alert_counter, population, supply))

CheckRainfall ==
    /\ alert_counter < MaxAlerts
    /\ \E panchayat_id \in PanchayatIds, deviation_pct \in Deviations :
        /\ call' = [op |-> "check_rainfall", panchayat_id |-> panchayat_id,
                    deviation_pct |-> deviation_pct]
        /\ Returns(check_rainfall(alert_counter, panchayat_id, deviation_pct))

NextAlert == CheckQuality \/ CheckGroundwater \/ CheckSupply \/ CheckRainfall

SpecAlert == Init /\ [][NextAlert]_vars

Graded == pc = "returned" /\ call.op = "grade_report"

(***************************************************************************)
(* C1.  Every report with coliform_present = true is graded HAZARDOUS,     *)
(* whatever its other parameters and its pre-populated grade field.        *)
(***************************************************************************)
C1_ColiformIsHazardous ==
    (Graded /\ call.report.coliform_present) => ret = HAZARDOUS

\* A report that is clean but for coliform, pre-populated SAFE, graded HAZARDOUS.
C1_Witness ==
    /\ Graded
    /\ call.report.coliform_present
    /\ call.report.grade = SAFE
    /\ call.report.ph = 65 /\ call.report.tds_ppm = 5000
    /\ call.report.turbidity_ntu = 10 /\ call.report.fluoride_ppm = 10
    /\ call.report.arsenic_ppb = 100 /\ call.report.iron_ppm = 3
    /\ call.report.nitrate_ppm = 450
    /\ ret = HAZARDOUS

(***************************************************************************)
(* C2, as stated.  Every report with TDS <= 500, turbidity <= 1,           *)
(* fluoride <= 1.0, arsenic <= 10, iron <= 0.3, nitrate <= 45, pH at or    *)
(* below its acceptable bound (8.5) and no coliform is graded SAFE.        *)
(***************************************************************************)
C2_AtOrBelowAcceptableIsSafe ==
    ( /\ Graded
      /\ call.report.tds_ppm <= 5000
      /\ call.report.turbidity_ntu <= 10
      /\ call.report.fluoride_ppm <= 10
      /\ call.report.arsenic_ppb <= 100
      /\ call.report.iron_ppm <= 3
      /\ call.report.nitrate_ppm <= 450
      /\ call.report.ph <= 85
      /\ ~call.report.coliform_present ) => ret = SAFE

(***************************************************************************)
(* C2, amended.  pH has an acceptable range, not one bound: every report   *)
(* with 6.5 <= pH <= 8.5, TDS <= 500, turbidity <= 1, fluoride <= 1.0,     *)
(* arsenic <= 10, iron <= 0.3, nitrate <= 45 and no coliform is graded     *)
(* SAFE.                                                                   *)
(***************************************************************************)
C2_WithinAcceptableIsSafe ==
    ( /\ Graded
      /\ call.report.tds_ppm <= 5000
      /\ call.report.turbidity_ntu <= 10
      /\ call.report.fluoride_ppm <= 10
      /\ call.report.arsenic_ppb <= 100
      /\ call.report.iron_ppm <= 3
      /\ call.report.nitrate_ppm <= 450
      /\ call.report.ph >= 65 /\ call.report.ph <= 85
      /\ ~call.report.coliform_present ) => ret = SAFE

\* Every parameter exactly on its acceptable bound, pH on the upper one.
C2_Witness ==
    /\ Graded
    /\ call.report.tds_ppm = 5000 /\ call.report.turbidity_ntu = 10
    /\ call.report.fluoride_ppm = 10 /\ call.report.arsenic_ppb = 100
    /\ call.report.iron_ppm = 3 /\ call.report.nitrate_ppm = 450
    /\ call.report.ph = 85 /\ ~call.report.coliform_present
    /\ ret = SAFE

(***************************************************************************)
(* C3.  grade_report equals the reference decision table: HAZARDOUS iff    *)
(* pH < 5.0 or pH > 9.5 or TDS > 2000 or fluoride > 1.5 or arsenic > 10    *)
(* or nitrate > 45 or coliform; otherwise CONTAMINATED iff pH < 6.5 or     *)
(* pH > 8.5 or TDS > 500 or turbidity > 5 or fluoride > 1.0 or iron > 1.0; *)
(* otherwise SAFE iff TDS <= 500, turbidity <= 1, fluoride <= 1.0 and      *)
(* iron <= 0.3; otherwise ACCEPTABLE.  A hazardous trigger on one          *)
(* parameter wins over a contaminated trigger on another.                  *)
(***************************************************************************)
C3_DecisionTable ==
    Graded =>
        LET r == call.report
            haz == \/ r.ph < 50 \/ r.ph > 95 \/ r.tds_ppm > 20000
                   \/ r.fluoride_ppm > 15 \/ r.arsenic_ppb > 100
                   \/ r.nitrate_ppm > 450 \/ r.coliform_present
            con == \/ r.ph < 65 \/ r.ph > 85 \/ r.tds_ppm > 5000
                   \/ r.turbidity_ntu > 50 \/ r.fluoride_ppm > 10
                   \/ r.iron_ppm > 10
            acc == /\ r.tds_ppm <= 5000 /\ r.turbidity_ntu <= 10
                   /\ r.fluoride_ppm <= 10 /\ r.iron_ppm <= 3
        IN  /\ (ret = HAZARDOUS) <=> haz
            /\ (ret = CONTAMINATED) <=> (~haz /\ con)
            /\ (ret = SAFE) <=> (~haz /\ ~con /\ acc)
            /\ (ret = ACCEPTABLE) <=> (~haz /\ ~con /\ ~acc)

\* Arsenic alone is hazardous while iron alone would be contaminated.
C3_Witness ==
    /\ Graded
    /\ call.report.arsenic_ppb = 101 /\ call.report.iron_ppm = 11
    /\ call.report.ph = 65 /\ call.report.tds_ppm = 5000
    /\ call.report.fluoride_ppm = 10 /\ call.report.nitrate_ppm = 450
    /\ ~call.report.coliform_present
    /\ ret = HAZARDOUS

(***************************************************************************)
(* One SourceManager: register may be called at any time on any source of  *)
(* Sources; total_supply_lpd may be queried for any unit.                  *)
(***************************************************************************)
SourceIds == {"S1", "S2", "S3"}

Sources ==
    [ source_id : SourceIds, panchayat_id : PanchayatIds, name : {"Borewell"},
      source_type : {"borewell"}, capacity_liters_per_day : {10000},
      current_yield_lpd : {0, 3000, 5000}, is_functional : BOOLEAN ]

\* A query: it returns result and changes nothing of the four objects.
Answers(c, result) ==
    /\ call' = c
    /\ ret' = result
    /\ pc' = "returned"
    /\ UNCHANGED <<alert_counter, issued, sources, gw_records, jjm_records,
                   rain_records>>

RegisterCall(source) ==
    /\ sources' = register(sources, source)
    /\ call' = [op |-> "register", source |-> source]
    /\ ret' = <<>>
    /\ pc' = "returned"
    /\ UNCHANGED <<alert_counter, issued, gw_records, jjm_records, rain_records>>

TotalSupplyLpdCall(panchayat_id) ==
    Answers([op |-> "total_supply_lpd", panchayat_id |-> panchayat_id],
            total_supply_lpd(sources, panchayat_id))

NextSources ==
    \/ \E source \in Sources : RegisterCall(source)
    \/ \E panchayat_id \in PanchayatIds : TotalSupplyLpdCall(panchayat_id)

SpecSources == Init /\ [][NextSources]_vars

(***************************************************************************)
(* One GroundwaterMonitor: add appends any record of GwRecords, up to      *)
(* MaxRecords of them; declining_trend may be queried for any unit and any *)
(* years of YearsArgs.                                                     *)
(***************************************************************************)
MaxRecords == 3

GwRecords ==
    [ panchayat_id : {"GP001"}, season : {PRE_MONSOON},
      year : {2022, 2023, 2024}, depth_meters : {8000, 10000, 12000},
      previous_year_depth : {0} ]
    \cup
    [ panchayat_id : {"GP001"}, season : {POST_MONSOON}, year : {2024},
      depth_meters : {10000}, previous_year_depth : {0} ]
    \cup
    [ panchayat_id : {"GP002"}, season : {PRE_MONSOON}, year : {2024},
      depth_meters : {10000}, previous_year_depth : {0} ]

YearsArgs == 0..3

AddCall(record) ==
    /\ gw_records' = Append(gw_records, record)
    /\ call' = [op |-> "add", record |-> record]
    /\ ret' = <<>>
    /\ pc' = "returned"
    /\ UNCHANGED <<alert_counter, issued, sources, jjm_records, rain_records>>

DecliningTrendCall(panchayat_id, years) ==
    Answers([op |-> "declining_trend", panchayat_id |-> panchayat_id,
             years |-> years],
            declining_trend(gw_records, panchayat_id, years))

NextGroundwater ==
    \/ /\ Len(gw_records) < MaxRecords
       /\ \E record \in GwRecords : AddCall(record)
    \/ \E panchayat_id \in PanchayatIds, years \in YearsArgs :
           DecliningTrendCall(panchayat_id, years)

SpecGroundwater == Init /\ [][NextGroundwater]_vars

\* The (category, level) pairs of a list of alerts, in order.
Kinds(alerts) ==
    [i \in 1..Len(alerts) |-> <<alerts[i].category, alerts[i].level>>]

(***************************************************************************)
(* C4.  check_quality returns exactly one EMERGENCY alert when the report  *)
(* grades HAZARDOUS, exactly one WARNING alert when it grades              *)
(* CONTAMINATED and no alert when it grades SAFE or ACCEPTABLE; every      *)
(* alert it returns has category water_quality and carries the report's    *)
(* source id and test date.                                                *)
(***************************************************************************)
C4_CheckQuality ==
    Checked("check_quality") =>
        LET grade == grade_report(call.report)
        IN  /\ grade = HAZARDOUS =>
                 Len(ret) = 1 /\ ret[1].level = EMERGENCY
            /\ grade = CONTAMINATED =>
                 Len(ret) = 1 /\ ret[1].level = WARNING
            /\ grade \in {SAFE, ACCEPTABLE} => ret = <<>>
            /\ \A i \in 1..Len(ret) :
                 /\ ret[i].category = "water_quality"
                 /\ ret[i].source_id = call.report.source_id
                 /\ ret[i].date = call.report.test_date

\* A report pre-populated SAFE whose fluoride (1.6) makes it HAZARDOUS.
C4_Witness ==
    /\ Checked("check_quality")
    /\ call.report.fluoride_ppm = 16 /\ call.report.grade = SAFE
    /\ call.report.source_id = "S2" /\ call.report.test_date = "2024-02-20"
    /\ Len(ret) = 1 /\ ret[1].level = EMERGENCY
    /\ ret[1].source_id = "S2" /\ ret[1].date = "2024-02-20"

\* The sequence number an alert identifier carries: its digits read back.
RECURSIVE DigitsValue(_)
DigitsValue(ds) ==
    IF ds = <<>> THEN 0
    ELSE 10 * DigitsValue(SubSeq(ds, 1, Len(ds) - 1)) + ds[Len(ds)]

SequenceNumber(alert_id) == DigitsValue(alert_id.digits)

(***************************************************************************)
(* C5.  Over any sequence of check_* calls on one engine, the sequence     *)
(* numbers of the identifiers it issues are strictly increasing in issue   *)
(* order, also within the two alerts of one check_groundwater call, and no *)
(* identifier is issued twice.                                             *)
(***************************************************************************)
C5_IdsStrictlyIncreasing ==
    /\ \A i, j \in 1..Len(issued) :
          i < j => /\ SequenceNumber(issued[i]) < SequenceNumber(issued[j])
                   /\ issued[i] # issued[j]
    /\ pc = "returned" =>
          /\ Len(ret) <= Len(issued)
          /\ \A i \in 1..Len(ret) :
                ret[i].alert_id = issued[Len(issued) - Len(ret) + i]

\* A check_groundwater call that returned two alerts after earlier alerts.
C5_Witness ==
    /\ Checked("check_groundwater")
    /\ Len(ret) = 2
    /\ Len(issued) >= 4
    /\ SequenceNumber(ret[1].alert_id) < SequenceNumber(ret[2].alert_id)

(***************************************************************************)
(* C8, as stated.  check_groundwater returns, in this order, at most one   *)
(* groundwater alert (CRITICAL when depth > 40, otherwise WARNING when     *)
(* depth > 20) and then one WARNING groundwater_trend alert iff            *)
(* depth > previous_year_depth and depth - previous_year_depth > 2.        *)
(***************************************************************************)
C8_GroundwaterAlertsUnrounded ==
    Checked("check_groundwater") =>
        LET depth == call.record.depth_meters
            previous == call.record.previous_year_depth
            level == IF depth > 40000 THEN <<(<<"groundwater", CRITICAL>>)>>
                     ELSE IF depth > 20000 THEN <<(<<"groundwater", WARNING>>)>>
                     ELSE <<>>
            trend == IF depth > previous /\ depth - previous > 2000
                     THEN <<(<<"groundwater_trend", WARNING>>)>> ELSE <<>>
        IN  Kinds(ret) = level \o trend

(***************************************************************************)
(* C8, amended.  The trend alert follows change_meters, the difference     *)
(* rounded to 2 decimals: check_groundwater returns, in this order, at     *)
(* most one groundwater alert (CRITICAL when depth > 40, otherwise WARNING *)
(* when depth > 20) and then one WARNING groundwater_trend alert iff       *)
(* depth > previous_year_depth and the difference rounded to 2 decimals is *)
(* > 2 (a difference of 2.004 rounds to 2.00 and raises none); never more  *)
(* than two alerts; a depth of exactly 40 or 20, or a change of exactly 2, *)
(* does not trigger the higher tier.  On an exact rounding tie either      *)
(* neighbour is allowed.                                                   *)
(***************************************************************************)
C8_GroundwaterAlerts ==
    Checked("check_groundwater") =>
        LET depth == call.record.depth_meters
            previous == call.record.previous_year_depth
            level == IF depth > 40000 THEN <<(<<"groundwater", CRITICAL>>)>>
                     ELSE IF depth > 20000 THEN <<(<<"groundwater", WARNING>>)>>
                     ELSE <<>>
            diff == depth - previous
            nearest == {c \in (diff - 5)..(diff + 5) : c % 10 = 0}
            trends == { IF depth > previous /\ c > 2000
                        THEN <<(<<"groundwater_trend", WARNING>>)>> ELSE <<>> :
                        c \in nearest }
        IN  /\ \E trend \in trends : Kinds(ret) = level \o trend
            /\ Len(ret) <= 2
            /\ \A i \in 1..Len(ret) :
                  ret[i].panchayat_id = call.record.panchayat_id

\* 42.006 m after 40 m: a CRITICAL depth alert, then the trend alert.
C8_Witness ==
    /\ Checked("check_groundwater")
    /\ call.record.depth_meters = 42006
    /\ call.record.previous_year_depth = 40000
    /\ Kinds(ret) = << <<"groundwater", CRITICAL>>,
                       <<"groundwater_trend", WARNING>> >>

(***************************************************************************)
(* C9.  check_supply returns no alert when population = 0; otherwise       *)
(* exactly one EMERGENCY alert when supply / population < 27, exactly one  *)
(* WARNING alert when 27 <= supply / population < 55, and no alert when    *)
(* supply / population >= 55.                                              *)
(***************************************************************************)
C9_CheckSupply ==
    Checked("check_supply") =>
        LET population == call.population
            supply == call.total_supply_lpd
        IN  /\ population = 0 => ret = <<>>
            /\ (population > 0 /\ supply < 27 * population) =>
                  Kinds(ret) = << <<"supply", EMERGENCY>> >>
            /\ (population > 0 /\ 27 * population <= supply
                               /\ supply < 55 * population) =>
                  Kinds(ret) = << <<"supply", WARNING>> >>
            /\ (population > 0 /\ supply >= 55 * population) => ret = <<>>

\* 81 litres for 3 people is exactly 27 LPCD: a WARNING, not an EMERGENCY.
C9_Witness ==
    /\ Checked("check_supply")
    /\ call.population = 3 /\ call.total_supply_lpd = 81
    /\ Kinds(ret) = << <<"supply", WARNING>> >>

(***************************************************************************)
(* C10.  check_rainfall returns exactly one CRITICAL drought alert when    *)
(* deviation_pct <= -40, exactly one CRITICAL flood alert when             *)
(* deviation_pct >= 60 and no alert in between; never both; the alert      *)
(* carries the given unit id.                                              *)
(***************************************************************************)
C10_CheckRainfall ==
    Checked("check_rainfall") =>
        /\ call.deviation_pct <= -400 =>
              Kinds(ret) = << <<"drought", CRITICAL>> >>
        /\ call.deviation_pct >= 600 =>
              Kinds(ret) = << <<"flood", CRITICAL>> >>
        /\ (call.deviation_pct > -400 /\ call.deviation_pct < 600) =>
              ret = <<>>
        /\ Len(ret) <= 1
        /\ \A i \in 1..Len(ret) : ret[i].panchayat_id = call.panchayat_id

\* A deviation of exactly -40 % for GP002: one drought alert for GP002.
C10_Witness ==
    /\ Checked("check_rainfall")
    /\ call.deviation_pct = -400 /\ call.panchayat_id = "GP002"
    /\ Kinds(ret) = << <<"drought", CRITICAL>> >>
    /\ ret[1].panchayat_id = "GP002"

(***************************************************************************)
(* C6, as stated.  In any state of a SourceManager, registering a          *)
(* non-functional source with current yield > 0 leaves total_supply_lpd    *)
(* unchanged for every unit.                                               *)
(***************************************************************************)
C6_NonFunctionalRegisterKeepsTotals ==
    [][ ( /\ call'.op = "register"
          /\ ~call'.source.is_functional
          /\ call'.source.current_yield_lpd > 0 )
        => \A u \in PanchayatIds :
              total_supply_lpd(sources', u) = total_supply_lpd(sources, u) ]_vars

(***************************************************************************)
(* C6, amended.  register overwrites by id, so the source registered may   *)
(* replace a functional one: registering a non-functional source with      *)
(* current yield > 0 leaves total_supply_lpd unchanged for every unit,     *)
(* provided its id is not held by a functional source with yield > 0.      *)
(***************************************************************************)
C6_NewNonFunctionalRegisterKeepsTotals ==
    [][ ( /\ call'.op = "register"
          /\ ~call'.source.is_functional
          /\ call'.source.current_yield_lpd > 0
          /\ ~\E i \in 1..Len(sources) :
                /\ sources[i].source_id = call'.source.source_id
                /\ sources[i].is_functional
                /\ sources[i].current_yield_lpd > 0 )
        => \A u \in PanchayatIds :
              total_supply_lpd(sources', u) = total_supply_lpd(sources, u) ]_vars

\* A unit whose functional S1 yields 5000 after a non-functional S2 with
\* yield 3000 was registered in it: its total is 5000.
C6_Witness ==
    /\ Checked("register")
    /\ call.source.source_id = "S2" /\ ~call.source.is_functional
    /\ call.source.current_yield_lpd = 3000
    /\ call.source.panchayat_id = "GP001"
    /\ Len(sources) = 2
    /\ sources[1].source_id = "S1" /\ sources[1].is_functional
    /\ sources[1].panchayat_id = "GP001" /\ sources[1].current_yield_lpd = 5000
    /\ sources[2] = call.source
    /\ total_supply_lpd(sources, "GP001") = 5000

(***************************************************************************)
(* C7.  declining_trend(unit, years) looks only at the unit's pre-monsoon  *)
(* records sorted by year ascending and keeps the last `years` of them     *)
(* (all when fewer exist); it returns false when fewer than 2 records      *)
(* remain, and otherwise true iff every remaining record's depth is        *)
(* strictly greater than that of the record before it.                     *)
(***************************************************************************)
C7_DecliningTrend ==
    Checked("declining_trend") =>
        LET PreMonsoon(r) == /\ r.panchayat_id = call.panchayat_id
                             /\ r.season = PRE_MONSOON
            records == SortByYear(SelectSeq(gw_records, PreMonsoon))
            n == Len(records)
            kept == IF call.years >= n THEN records
                    ELSE SubSeq(records, n - call.years + 1, n)
        IN  ret = ( /\ Len(kept) >= 2
                    /\ \A i \in 2..Len(kept) :
                          kept[i].depth_meters > kept[i - 1].depth_meters )

(***************************************************************************)
(* Python's None, the result of dict.get on a missing key and of latest on *)
(* a unit without records.                                                 *)
(***************************************************************************)
None == [type |-> "NoneType"]

\* core.py, SourceManager.get: self._sources.get(source_id).
SourceManager_get(srcs, source_id) ==
    IF \E i \in 1..Len(srcs) : srcs[i].source_id = source_id
    THEN srcs[CHOOSE i \in 1..Len(srcs) : srcs[i].source_id = source_id]
    ELSE None

(***************************************************************************)
(* core.py, JJMTracker.update: self._records[status.panchayat_id] = status *)
(* on a dict, which overwrites the value of a key already present in place *)
(* and appends a new key.                                                  *)
(***************************************************************************)
JJMTracker_update(records, status) ==
    IF \E i \in 1..Len(records) : records[i].panchayat_id = status.panchayat_id
    THEN [i \in 1..Len(records) |->
             IF records[i].panchayat_id = status.panchayat_id
             THEN status ELSE records[i]]
    ELSE Append(records, status)

\* core.py, JJMTracker.get: self._records.get(panchayat_id).
JJMTracker_get(records, panchayat_id) ==
    IF \E i \in 1..Len(records) : records[i].panchayat_id = panchayat_id
    THEN records[CHOOSE i \in 1..Len(records) :
                     records[i].panchayat_id = panchayat_id]
    ELSE None

(***************************************************************************)
(* The two registries side by side: register and update insert any entity  *)
(* of RegistrySources and RegistryStatuses, get looks up any id of either  *)
(* registry, among them ids that no insertion uses.                        *)
(***************************************************************************)
LookupSourceIds == {"S1", "S2", "S9"}
LookupPanchayatIds == PanchayatIds \cup {"GP999"}

RegistrySources ==
    [ source_id : {"S1", "S2"}, panchayat_id : PanchayatIds,
      name : {"Borewell"}, source_type : {"borewell"},
      capacity_liters_per_day : {0, 10000}, current_yield_lpd : {3333},
      is_functional : BOOLEAN ]

RegistryStatuses ==
    [ panchayat_id : PanchayatIds, panchayat_name : {"Rampur"},
      total_households : {0, 300}, fhtc_provided : {0, 100},
      fhtc_functional : {33}, target_date : {""}, report_date : {""} ]

UpdateCall(status) ==
    /\ jjm_records' = JJMTracker_update(jjm_records, status)
    /\ call' = [op |-> "update", status |-> status]
    /\ ret' = <<>>
    /\ pc' = "returned"
    /\ UNCHANGED <<alert_counter, issued, sources, gw_records, rain_records>>

SourceGetCall(source_id) ==
    Answers([op |-> "SourceManager.get", source_id |-> source_id],
            SourceManager_get(sources, source_id))

TrackerGetCall(panchayat_id) ==
    Answers([op |-> "JJMTracker.get", panchayat_id |-> panchayat_id],
            JJMTracker_get(jjm_records, panchayat_id))

NextRegistries ==
    \/ \E source \in RegistrySources : RegisterCall(source)
    \/ \E status \in RegistryStatuses : UpdateCall(status)
    \/ \E source_id \in LookupSourceIds :
           SourceGetCall(source_id)
    \/ \E panchayat_id \in LookupPanchayatIds :
           TrackerGetCall(panchayat_id)

SpecRegistries == Init /\ [][NextRegistries]_vars

\* The unit ids carried by the entities of a store.
UnitsOf(store) == { store[i].panchayat_id : i \in 1..Len(store) }

\* The ids held by a registry.
SourceIdsOf(srcs) == { srcs[i].source_id : i \in 1..Len(srcs) }

(***************************************************************************)
(* C11.  Both registries are keyed by id with last-write-wins: after an    *)
(* insertion, get of the inserted id returns exactly the inserted entity   *)
(* (no field of the earlier entity survives), get of every other id        *)
(* returns what it returned before, the registry holds one entry per       *)
(* distinct id inserted so far, and no step removes an entry.              *)
(***************************************************************************)
C11_LastWriteWins ==
    [][ /\ call'.op = "register" =>
            /\ SourceManager_get(sources', call'.source.source_id) = call'.source
            /\ \A id \in LookupSourceIds \ {call'.source.source_id} :
                  SourceManager_get(sources', id) = SourceManager_get(sources, id)
            /\ SourceIdsOf(sources') =
                  SourceIdsOf(sources) \cup {call'.source.source_id}
            /\ Len(sources') = Cardinality(SourceIdsOf(sources'))
        /\ call'.op = "update" =>
            /\ JJMTracker_get(jjm_records', call'.status.panchayat_id)
                  = call'.status
            /\ \A id \in LookupPanchayatIds \ {call'.status.panchayat_id} :
                  JJMTracker_get(jjm_records', id) = JJMTracker_get(jjm_records, id)
            /\ UnitsOf(jjm_records') =
                  UnitsOf(jjm_records) \cup {call'.status.panchayat_id}
            /\ Len(jjm_records') = Cardinality(UnitsOf(jjm_records'))
        /\ call'.op # "register" => sources' = sources
        /\ call'.op # "update" => jjm_records' = jjm_records
        /\ call'.op = "SourceManager.get" =>
              ret' = SourceManager_get(sources, call'.source_id)
        /\ call'.op = "JJMTracker.get" =>
              ret' = JJMTracker_get(jjm_records, call'.panchayat_id) ]_vars

\* S1 registered again after S2: the registry still holds two entries, S1
\* first, and S1's entry is the source just registered; likewise GP001
\* updated again after GP002.
C11_Witness ==
    /\ Checked("update")
    /\ Len(sources) = 2
    /\ sources[1].source_id = "S1" /\ sources[1].capacity_liters_per_day = 0
    /\ ~sources[1].is_functional
    /\ Len(jjm_records) = 2
    /\ jjm_records[1] = call.status
    /\ jjm_records[1].panchayat_id = "GP001"
    /\ jjm_records[1].total_households = 0
    /\ jjm_records[1].fhtc_provided = 100

(***************************************************************************)
(* Derived ratios.  round((num / den) * 100, 1) as tenths of a percent:    *)
(* the quotient 1000 * num / den rounded to the nearest integer, a tie to  *)
(* the even neighbour.  As in Python, it has no value when den is 0.       *)
(***************************************************************************)
RoundedPercent(num, den) == RoundHalfEven(1000 * num, den) \div den

\* yield_pct that reports a source without capacity as at full yield.
yield_pct_full_without_capacity(source) ==
    IF source.capacity_liters_per_day = 0
    THEN 1000
    ELSE RoundedPercent(source.current_yield_lpd, source.capacity_liters_per_day)

\* models.py, WaterSource.yield_pct, in tenths of a percent.
yield_pct(source) ==
    IF source.capacity_liters_per_day = 0
    THEN 0
    ELSE RoundedPercent(source.current_yield_lpd, source.capacity_liters_per_day)

\* models.py, FHTCStatus.coverage_pct, in tenths of a percent.
coverage_pct(status) ==
    IF status.total_households = 0
    THEN 0
    ELSE RoundedPercent(status.fhtc_provided, status.total_households)

\* models.py, FHTCStatus.functional_pct, in tenths of a percent.
functional_pct(status) ==
    IF status.fhtc_provided = 0
    THEN 0
    ELSE RoundedPercent(status.fhtc_functional, status.fhtc_provided)

(***************************************************************************)
(* models.py, RainfallRecord.  rainfall_mm and normal_mm are hundredths of *)
(* a millimetre, so 400 mm is 40000; deviations are tenths of a percent.   *)
(***************************************************************************)
deviation_pct(record) ==
    IF record.normal_mm = 0
    THEN 0
    ELSE RoundedPercent(record.rainfall_mm - record.normal_mm, record.normal_mm)

(***************************************************************************)
(* core.py, RainfallAnalyzer.                                              *)
(***************************************************************************)
\* annual_total over the last record of each month only, as if add replaced
\* an earlier record of the same unit, month and year.
annual_total_last_of_month(records, panchayat_id, year) ==
    LET kept == { i \in 1..Len(records) :
                    /\ records[i].panchayat_id = panchayat_id
                    /\ records[i].year = year
                    /\ ~\E j \in (i + 1)..Len(records) :
                           /\ records[j].panchayat_id = panchayat_id
                           /\ records[j].year = year
                           /\ records[j].month = records[i].month }
    IN  SumSeq([i \in 1..Len(records) |->
                  IF i \in kept THEN records[i].rainfall_mm ELSE 0])

annual_total(records, panchayat_id, year) ==
    LET OfYear(r) == r.panchayat_id = panchayat_id /\ r.year = year
        matching == SelectSeq(records, OfYear)
    IN  SumSeq([i \in 1..Len(matching) |-> matching[i].rainfall_mm])

annual_normal(records, panchayat_id, year) ==
    LET OfYear(r) == r.panchayat_id = panchayat_id /\ r.year = year
        matching == SelectSeq(records, OfYear)
    IN  SumSeq([i \in 1..Len(matching) |-> matching[i].normal_mm])

annual_deviation_pct(records, panchayat_id, year) ==
    LET normal == annual_normal(records, panchayat_id, year)
        actual == annual_total(records, panchayat_id, year)
    IN  IF normal = 0 THEN 0 ELSE RoundedPercent(actual - normal, normal)

monsoon_months == {6, 7, 8, 9}

\* round(x, 1) of millimetres kept in hundredths: the nearest multiple of 10.
monsoon_performance(records, panchayat_id, year) ==
    LET InMonsoon(r) == /\ r.panchayat_id = panchayat_id
                        /\ r.year = year
                        /\ r.month \in monsoon_months
        matching == SelectSeq(records, InMonsoon)
        actual == SumSeq([i \in 1..Len(matching) |-> matching[i].rainfall_mm])
        normal == SumSeq([i \in 1..Len(matching) |-> matching[i].normal_mm])
        deviation == IF normal > 0
                     THEN RoundedPercent(actual - normal, normal)
                     ELSE 0
    IN  [ deviation_pct |-> deviation,
          normal_mm |-> RoundHalfEven(normal, 10),
          actual_mm |-> RoundHalfEven(actual, 10) ]

(***************************************************************************)
(* core.py, JJMTracker.lpcd_check.  total_supply_lpd is tenths of a litre; *)
(* actual_lpcd and required_lpcd are tenths of a litre per head (55.0 is   *)
(* 550) and gap_lpd, rounded to 0 decimals, is whole litres.               *)
(***************************************************************************)
\* lpcd_check whose gap is the signed difference, without max(0.0, ...).
lpcd_check_signed_gap(panchayat_id, population, supply_lpd) ==
    IF population = 0
    THEN [ actual_lpcd |-> 0, required_lpcd |-> 10 * JJM_LPCD_STANDARD,
           gap_lpd |-> 0 ]
    ELSE LET required_lpd == population * JJM_LPCD_STANDARD * 10
             gap_lpd == required_lpd - supply_lpd
         IN  [ actual_lpcd |-> RoundHalfEven(supply_lpd, population) \div population,
               required_lpcd |-> 10 * JJM_LPCD_STANDARD,
               gap_lpd |-> RoundHalfEven(gap_lpd, 10) \div 10 ]

lpcd_check(panchayat_id, population, supply_lpd) ==
    IF population = 0
    THEN [ actual_lpcd |-> 0, required_lpcd |-> 10 * JJM_LPCD_STANDARD,
           gap_lpd |-> 0 ]
    ELSE LET required_lpd == population * JJM_LPCD_STANDARD * 10
             gap_lpd == IF required_lpd - supply_lpd > 0
                        THEN required_lpd - supply_lpd ELSE 0
         IN  [ actual_lpcd |-> RoundHalfEven(supply_lpd, population) \div population,
               required_lpcd |-> 10 * JJM_LPCD_STANDARD,
               gap_lpd |-> RoundHalfEven(gap_lpd, 10) \div 10 ]

RainfallAddCall(record) ==
    /\ rain_records' = Append(rain_records, record)
    /\ call' = [op |-> "RainfallAnalyzer.add", record |-> record]
    /\ ret' = <<>>
    /\ pc' = "returned"
    /\ UNCHANGED <<alert_counter, issued, sources, gw_records, jjm_records>>

YieldPctCall(source) ==
    Answers([op |-> "yield_pct", source |-> source], yield_pct(source))

CoveragePctCall(status) ==
    Answers([op |-> "coverage_pct", status |-> status], coverage_pct(status))

FunctionalPctCall(status) ==
    Answers([op |-> "functional_pct", status |-> status], functional_pct(status))

DeviationPctCall(record) ==
    Answers([op |-> "deviation_pct", record |-> record], deviation_pct(record))

AnnualDeviationPctCall(panchayat_id, year) ==
    Answers([op |-> "annual_deviation_pct", panchayat_id |-> panchayat_id,
             year |-> year],
            annual_deviation_pct(rain_records, panchayat_id, year))

MonsoonPerformanceCall(panchayat_id, year) ==
    Answers([op |-> "monsoon_performance", panchayat_id |-> panchayat_id,
             year |-> year],
            monsoon_performance(rain_records, panchayat_id, year))

LpcdCheckCall(panchayat_id, population, supply_lpd) ==
    Answers([op |-> "lpcd_check", panchayat_id |-> panchayat_id,
             population |-> population, total_supply_lpd |-> supply_lpd],
            lpcd_check(panchayat_id, population, supply_lpd))

(***************************************************************************)
(* The derived ratios on entities with and without a zero denominator, and *)
(* the analyzer's ratios over up to MaxRainRecords added records, some of  *)
(* them with normal_mm = 0.                                                *)
(***************************************************************************)
MaxRainRecords == 2

RatioRainRecords ==
    { [ panchayat_id |-> "GP001", year |-> 2024, normal_mm |-> p[2],
        rainfall_mm |-> p[1], month |-> m ] :
        m \in {1, 7}, p \in {<<0, 0>>, <<50000, 0>>, <<40000, 100000>>} }

LpcdPopulations == {0, 1, 3, 1000}
LpcdSupplies == {0, 550, 1000, 1004, 1650, 1651, 400000, 550000, 600000}
RainYears == {2023, 2024}

NextRatios ==
    \/ /\ Len(rain_records) < MaxRainRecords
       /\ \E record \in RatioRainRecords : RainfallAddCall(record)
    \/ \E source \in RegistrySources : YieldPctCall(source)
    \/ \E status \in RegistryStatuses : CoveragePctCall(status)
    \/ \E status \in RegistryStatuses : FunctionalPctCall(status)
    \/ \E record \in RatioRainRecords : DeviationPctCall(record)
    \/ \E panchayat_id \in PanchayatIds, year \in RainYears :
           AnnualDeviationPctCall(panchayat_id, year)
    \/ \E panchayat_id \in PanchayatIds, year \in RainYears :
           MonsoonPerformanceCall(panchayat_id, year)
    \/ \E panchayat_id \in PanchayatIds, population \in LpcdPopulations,
           supply_lpd \in LpcdSupplies :
           LpcdCheckCall(panchayat_id, population, supply_lpd)

SpecRatios == Init /\ [][NextRatios]_vars

\* The sum of normal_mm over the records a rainfall query selects.
NormalOf(months) ==
    LET Selected(r) == /\ r.panchayat_id = call.panchayat_id
                       /\ r.year = call.year
                       /\ r.month \in months
        matching == SelectSeq(rain_records, Selected)
    IN  SumSeq([i \in 1..Len(matching) |-> matching[i].normal_mm])

(***************************************************************************)
(* C12.  Every derived ratio whose denominator is zero is 0, returned as a *)
(* value: yield_pct with capacity 0, coverage_pct with total_households 0, *)
(* functional_pct with fhtc_provided 0, a rainfall record's deviation_pct  *)
(* with normal_mm 0, annual_deviation_pct and the deviation of             *)
(* monsoon_performance when the normals they sum add up to 0, and          *)
(* actual_lpcd of lpcd_check when population is 0.                         *)
(***************************************************************************)
C12_ZeroDenominatorIsZero ==
    /\ Checked("yield_pct") /\ call.source.capacity_liters_per_day = 0
          => ret = 0
    /\ Checked("coverage_pct") /\ call.status.total_households = 0
          => ret = 0
    /\ Checked("functional_pct") /\ call.status.fhtc_provided = 0
          => ret = 0
    /\ Checked("deviation_pct") /\ call.record.normal_mm = 0
          => ret = 0
    /\ Checked("annual_deviation_pct") /\ NormalOf(1..12) = 0
          => ret = 0
    /\ Checked("monsoon_performance") /\ NormalOf({6, 7, 8, 9}) = 0
          => ret.deviation_pct = 0
    /\ Checked("lpcd_check") /\ call.population = 0
          => ret.actual_lpcd = 0

\* annual_deviation_pct of a unit and year whose two records carry rain
\* but a normal of 0.
C12_Witness ==
    /\ Checked("annual_deviation_pct")
    /\ call.panchayat_id = "GP001" /\ call.year = 2024
    /\ Len(rain_records) = 2
    /\ \A i \in 1..2 : /\ rain_records[i].normal_mm = 0
                       /\ rain_records[i].rainfall_mm = 50000
    /\ ret = 0

(***************************************************************************)
(* core.py, SourceManager: the remaining per-unit queries.  threshold_pct  *)
(* is tenths of a percent; its default 40.0 is 400.                        *)
(***************************************************************************)
non_functional_sources(srcs, panchayat_id) ==
    LET NonFunctional(s) == ~s.is_functional
    IN  SelectSeq(by_panchayat(srcs, panchayat_id), NonFunctional)

\* low_yield_sources that filters by_panchayat instead of functional_sources.
low_yield_sources_of_unit(srcs, panchayat_id, threshold_pct) ==
    LET LowYield(s) == yield_pct(s) < threshold_pct
    IN  SelectSeq(by_panchayat(srcs, panchayat_id), LowYield)

low_yield_sources(srcs, panchayat_id, threshold_pct) ==
    LET LowYield(s) == yield_pct(s) < threshold_pct
    IN  SelectSeq(functional_sources(srcs, panchayat_id), LowYield)

\* core.py, JJMTracker.demand_gap.
demand_gap(records, panchayat_id) ==
    LET status == JJMTracker_get(records, panchayat_id)
    IN  IF status = None THEN 0
        ELSE IF status.total_households - status.fhtc_provided > 0
             THEN status.total_households - status.fhtc_provided
             ELSE 0

(***************************************************************************)
(* models.py, SeasonType: the value of a season is its label, and Python   *)
(* orders strings by code point.  season_value gives each label as its     *)
(* code points; LexLess is the order of str.                               *)
(***************************************************************************)
season_value ==
    [ s \in SeasonType |->
        CASE s = PRE_MONSOON ->
                 <<112, 114, 101, 95, 109, 111, 110, 115, 111, 111, 110>>
          [] s = MONSOON -> <<109, 111, 110, 115, 111, 111, 110>>
          [] s = POST_MONSOON ->
                 <<112, 111, 115, 116, 95, 109, 111, 110, 115, 111, 111, 110>>
          [] s = WINTER -> <<119, 105, 110, 116, 101, 114>> ]

RECURSIVE LexLess(_, _)
LexLess(a, b) ==
    IF b = <<>> THEN FALSE
    ELSE IF a = <<>> THEN TRUE
    ELSE IF a[1] < b[1] THEN TRUE
    ELSE IF a[1] > b[1] THEN FALSE
    ELSE LexLess(Tail(a), Tail(b))

\* The sort key reduced to the year: key=lambda r: r.year.
KeyLess_year_only(r1, r2) == r1.year < r2.year

\* The order of the tuples (r.year, r.season.value).
KeyLess(r1, r2) ==
    \/ r1.year < r2.year
    \/ r1.year = r2.year /\ LexLess(season_value[r1.season], season_value[r2.season])

(***************************************************************************)
(* core.py, GroundwaterMonitor.by_panchayat.  sorted is stable: an         *)
(* insertion sort that moves a record only past records of a strictly      *)
(* greater key gives the same order.                                       *)
(***************************************************************************)
RECURSIVE InsertByKey(_, _)
InsertByKey(sorted, record) ==
    IF sorted = <<>> THEN <<record>>
    ELSE IF ~KeyLess(record, sorted[Len(sorted)]) THEN Append(sorted, record)
    ELSE Append(InsertByKey(SubSeq(sorted, 1, Len(sorted) - 1), record),
                sorted[Len(sorted)])

RECURSIVE SortByKey(_)
SortByKey(records) ==
    IF records = <<>> THEN <<>>
    ELSE InsertByKey(SortByKey(SubSeq(records, 1, Len(records) - 1)),
                     records[Len(records)])

GroundwaterMonitor_by_panchayat(all_records, panchayat_id) ==
    LET InUnit(r) == r.panchayat_id = panchayat_id
    IN  SortByKey(SelectSeq(all_records, InUnit))

\* latest that falls back on the monitor's last record of any unit.
latest_of_any_unit(all_records, panchayat_id) ==
    LET records == GroundwaterMonitor_by_panchayat(all_records, panchayat_id)
    IN  IF records # <<>> THEN records[Len(records)]
        ELSE IF all_records # <<>> THEN all_records[Len(all_records)]
        ELSE None

\* core.py, GroundwaterMonitor.latest.
latest(all_records, panchayat_id) ==
    LET records == GroundwaterMonitor_by_panchayat(all_records, panchayat_id)
    IN  IF records # <<>> THEN records[Len(records)] ELSE None

\* max(records, key=lambda r: r.year): the first record of the greatest year.
MaxByYear(records) ==
    records[CHOOSE i \in 1..Len(records) :
                /\ \A j \in 1..Len(records) : records[j].year <= records[i].year
                /\ \A j \in 1..(i - 1) : records[j].year < records[i].year]

\* recharge_potential without the test that both latest records are of the
\* same year.
recharge_potential_any_year(all_records, panchayat_id) ==
    LET InUnit(r) == r.panchayat_id = panchayat_id
        IsPre(r) == r.season = PRE_MONSOON
        IsPost(r) == r.season = POST_MONSOON
        records == SelectSeq(all_records, InUnit)
        pre == SelectSeq(records, IsPre)
        post == SelectSeq(records, IsPost)
    IN  IF pre = <<>> \/ post = <<>> THEN "insufficient_data"
        ELSE LET recovery == MaxByYear(pre).depth_meters - MaxByYear(post).depth_meters
             IN  IF recovery > 5000 THEN "high"
                 ELSE IF recovery > 2000 THEN "moderate"
                 ELSE IF recovery > 0 THEN "low"
                 ELSE "negligible"

\* core.py, GroundwaterMonitor.recharge_potential; depths are millimetres.
recharge_potential(all_records, panchayat_id) ==
    LET InUnit(r) == r.panchayat_id = panchayat_id
        IsPre(r) == r.season = PRE_MONSOON
        IsPost(r) == r.season = POST_MONSOON
        records == SelectSeq(all_records, InUnit)
        pre == SelectSeq(records, IsPre)
        post == SelectSeq(records, IsPost)
    IN  IF pre = <<>> \/ post = <<>> THEN "insufficient_data"
        ELSE LET latest_pre == MaxByYear(pre)
                 latest_post == MaxByYear(post)
                 recovery == latest_pre.depth_meters - latest_post.depth_meters
             IN  IF latest_pre.year # latest_post.year THEN "insufficient_data"
                 ELSE IF recovery > 5000 THEN "high"
                 ELSE IF recovery > 2000 THEN "moderate"
                 ELSE IF recovery > 0 THEN "low"
                 ELSE "negligible"

SourceByPanchayatCall(panchayat_id) ==
    Answers([op |-> "by_panchayat", panchayat_id |-> panchayat_id],
            by_panchayat(sources, panchayat_id))

FunctionalSourcesCall(panchayat_id) ==
    Answers([op |-> "functional_sources", panchayat_id |-> panchayat_id],
            functional_sources(sources, panchayat_id))

NonFunctionalSourcesCall(panchayat_id) ==
    Answers([op |-> "non_functional_sources", panchayat_id |-> panchayat_id],
            non_functional_sources(sources, panchayat_id))

LowYieldSourcesCall(panchayat_id, threshold_pct) ==
    Answers([op |-> "low_yield_sources", panchayat_id |-> panchayat_id,
             threshold_pct |-> threshold_pct],
            low_yield_sources(sources, panchayat_id, threshold_pct))

DemandGapCall(panchayat_id) ==
    Answers([op |-> "demand_gap", panchayat_id |-> panchayat_id],
            demand_gap(jjm_records, panchayat_id))

GroundwaterByPanchayatCall(panchayat_id) ==
    Answers([op |-> "GroundwaterMonitor.by_panchayat",
             panchayat_id |-> panchayat_id],
            GroundwaterMonitor_by_panchayat(gw_records, panchayat_id))

LatestCall(panchayat_id) ==
    Answers([op |-> "latest", panchayat_id |-> panchayat_id],
            latest(gw_records, panchayat_id))

RechargePotentialCall(panchayat_id) ==
    Answers([op |-> "recharge_potential", panchayat_id |-> panchayat_id],
            recharge_potential(gw_records, panchayat_id))

AnnualTotalCall(panchayat_id, year) ==
    Answers([op |-> "annual_total", panchayat_id |-> panchayat_id, year |-> year],
            annual_total(rain_records, panchayat_id, year))

AnnualNormalCall(panchayat_id, year) ==
    Answers([op |-> "annual_normal", panchayat_id |-> panchayat_id, year |-> year],
            annual_normal(rain_records, panchayat_id, year))

(***************************************************************************)
(* The four stores together, each filled from a few entities of the units  *)
(* GP001 and GP002, and every per-id query asked for those units and for   *)
(* ids that nothing inserts.                                               *)
(***************************************************************************)
MaxLookupRecords == 2

LookupSources ==
    { [ source_id |-> "S1", panchayat_id |-> "GP001", is_functional |-> TRUE,
        current_yield_lpd |-> 3000, name |-> "Borewell",
        source_type |-> "borewell", capacity_liters_per_day |-> 10000 ],
      [ source_id |-> "S2", panchayat_id |-> "GP002", is_functional |-> FALSE,
        current_yield_lpd |-> 5000, name |-> "Borewell",
        source_type |-> "borewell", capacity_liters_per_day |-> 10000 ] }

LookupStatuses ==
    { [ panchayat_id |-> "GP001", panchayat_name |-> "Rampur",
        total_households |-> 500, fhtc_provided |-> 400,
        fhtc_functional |-> 360, target_date |-> "", report_date |-> "" ] }

LookupGwRecords ==
    { [ depth_meters |-> 12000, previous_year_depth |-> 0,
        panchayat_id |-> "GP001", year |-> 2024, season |-> PRE_MONSOON ],
      [ depth_meters |-> 5000, previous_year_depth |-> 0,
        panchayat_id |-> "GP001", year |-> 2024, season |-> POST_MONSOON ] }

LookupRainRecords ==
    { [ panchayat_id |-> "GP001", year |-> 2024, normal_mm |-> 100000,
        rainfall_mm |-> 40000, month |-> 7 ] }

DefaultThresholdPct == 400

NextLookup ==
    \/ \E source \in LookupSources : RegisterCall(source)
    \/ \E status \in LookupStatuses : UpdateCall(status)
    \/ /\ Len(gw_records) < MaxLookupRecords
       /\ \E record \in LookupGwRecords : AddCall(record)
    \/ /\ Len(rain_records) < MaxLookupRecords
       /\ \E record \in LookupRainRecords : RainfallAddCall(record)
    \/ \E source_id \in LookupSourceIds : SourceGetCall(source_id)
    \/ \E panchayat_id \in LookupPanchayatIds : TrackerGetCall(panchayat_id)
    \/ \E panchayat_id \in LookupPanchayatIds : SourceByPanchayatCall(panchayat_id)
    \/ \E panchayat_id \in LookupPanchayatIds : FunctionalSourcesCall(panchayat_id)
    \/ \E panchayat_id \in LookupPanchayatIds : NonFunctionalSourcesCall(panchayat_id)
    \/ \E panchayat_id \in LookupPanchayatIds :
           LowYieldSourcesCall(panchayat_id, DefaultThresholdPct)
    \/ \E panchayat_id \in LookupPanchayatIds : TotalSupplyLpdCall(panchayat_id)
    \/ \E panchayat_id \in LookupPanchayatIds : DemandGapCall(panchayat_id)
    \/ \E panchayat_id \in LookupPanchayatIds : LatestCall(panchayat_id)
    \/ \E panchayat_id \in LookupPanchayatIds, years \in YearsArgs :
           DecliningTrendCall(panchayat_id, years)
    \/ \E panchayat_id \in LookupPanchayatIds : RechargePotentialCall(panchayat_id)
    \/ \E panchayat_id \in LookupPanchayatIds, year \in RainYears :
           AnnualTotalCall(panchayat_id, year)
    \/ \E panchayat_id \in LookupPanchayatIds, year \in RainYears :
           AnnualNormalCall(panchayat_id, year)

SpecLookup == Init /\ [][NextLookup]_vars

(***************************************************************************)
(* C13.  A query for a source id that no registered source carries, or for *)
(* a unit that no entity of the queried store belongs to, returns a        *)
(* not-found value: None from the two get and from latest, the empty list  *)
(* from by_panchayat, functional_sources, non_functional_sources and       *)
(* low_yield_sources, 0 from total_supply_lpd, demand_gap, annual_total    *)
(* and annual_normal, false from declining_trend and insufficient_data     *)
(* from recharge_potential.                                                *)
(***************************************************************************)
C13_UnknownIdIsNotFound ==
    /\ Checked("SourceManager.get") /\ call.source_id \notin SourceIdsOf(sources)
          => ret = None
    /\ Checked("JJMTracker.get") /\ call.panchayat_id \notin UnitsOf(jjm_records)
          => ret = None
    /\ ( /\ pc = "returned"
         /\ call.op \in {"by_panchayat", "functional_sources",
                         "non_functional_sources", "low_yield_sources"}
         /\ call.panchayat_id \notin UnitsOf(sources) )
          => ret = <<>>
    /\ Checked("total_supply_lpd") /\ call.panchayat_id \notin UnitsOf(sources)
          => ret = 0
    /\ Checked("demand_gap") /\ call.panchayat_id \notin UnitsOf(jjm_records)
          => ret = 0
    /\ Checked("latest") /\ call.panchayat_id \notin UnitsOf(gw_records)
          => ret = None
    /\ Checked("declining_trend") /\ call.panchayat_id \notin UnitsOf(gw_records)
          => ret = FALSE
    /\ Checked("recharge_potential") /\ call.panchayat_id \notin UnitsOf(gw_records)
          => ret = "insufficient_data"
    /\ ( /\ pc = "returned"
         /\ call.op \in {"annual_total", "annual_normal"}
         /\ call.panchayat_id \notin UnitsOf(rain_records) )
          => ret = 0

\* latest asked for a unit nothing was inserted for, while every store
\* holds entities of other units.
C13_Witness ==
    /\ Checked("latest")
    /\ call.panchayat_id = "GP999"
    /\ Len(sources) = 2
    /\ Len(jjm_records) = 1
    /\ Len(gw_records) = 2
    /\ Len(rain_records) = 1
    /\ ret = None

(***************************************************************************)
(* One JJMTracker: update inserts any status of RegistryStatuses and       *)
(* lpcd_check is asked for any unit, any population of LpcdPopulations and *)
(* any supply of LpcdSupplies (tenths of a litre: 100.4 litres is 1004).   *)
(***************************************************************************)
NextTracker ==
    \/ \E status \in RegistryStatuses : UpdateCall(status)
    \/ \E panchayat_id \in LookupPanchayatIds, population \in LpcdPopulations,
           supply_lpd \in LpcdSupplies :
           LpcdCheckCall(panchayat_id, population, supply_lpd)

SpecTracker == Init /\ [][NextTracker]_vars

\* The distance between two integers.
Distance(a, b) == IF a >= b THEN a - b ELSE b - a

(***************************************************************************)
(* C14.  lpcd_check returns required_lpcd = 55 always; actual_lpcd = 0 and *)
(* gap_lpd = 0 when population is 0; otherwise actual_lpcd is supply /     *)
(* population rounded to 1 decimal and gap_lpd is max(0, population * 55 - *)
(* supply) rounded to 0 decimals, never negative and 0 whenever supply >=  *)
(* population * 55.  The statement names neither the unit id nor the       *)
(* tracker's records, and it fixes the result: the result depends on       *)
(* population and supply alone.                                            *)
(***************************************************************************)
C14_LpcdCheckRounded ==
    Checked("lpcd_check") =>
        LET population == call.population
            supply == call.total_supply_lpd
            required == population * 550
            gap == IF required - supply > 0 THEN required - supply ELSE 0
        IN  /\ ret.required_lpcd = 550
            /\ population = 0 => ret.actual_lpcd = 0 /\ ret.gap_lpd = 0
            /\ population > 0 =>
                  /\ 2 * Distance(ret.actual_lpcd * population, supply) <= population
                  /\ 2 * Distance(10 * ret.gap_lpd, gap) <= 10
            /\ ret.gap_lpd >= 0
            /\ supply >= required => ret.gap_lpd = 0

(***************************************************************************)
(* C14 as stated, without the rounding: actual_lpcd = supply / population  *)
(* and gap_lpd = max(0, population * 55 - supply) exactly.                 *)
(***************************************************************************)
C14_LpcdCheckExact ==
    Checked("lpcd_check") =>
        LET population == call.population
            supply == call.total_supply_lpd
            required == population * 550
            gap == IF required - supply > 0 THEN required - supply ELSE 0
        IN  /\ ret.required_lpcd = 550
            /\ population = 0 => ret.actual_lpcd = 0 /\ ret.gap_lpd = 0
            /\ population > 0 =>
                  /\ ret.actual_lpcd * population = supply
                  /\ 10 * ret.gap_lpd = gap

\* 100.4 litres for 3 people, asked of a tracker holding two units:
\* 33.5 LPCD and a gap of 65 litres (64.6 before rounding).
C14_Witness ==
    /\ Checked("lpcd_check")
    /\ call.population = 3 /\ call.total_supply_lpd = 1004
    /\ Len(jjm_records) = 2
    /\ ret = [actual_lpcd |-> 335, required_lpcd |-> 550, gap_lpd |-> 65]

(***************************************************************************)
(* core.py, WaterBudgetPlanner.sustainability_index, in tenths of a        *)
(* percent: min(100.0, ratio * 100) is the smaller of 1000 * demand and    *)
(* 1000 * supply over demand, and round(..., 1) its nearest integer.       *)
(***************************************************************************)
\* sustainability_index without the cap min(100.0, ...).
sustainability_index_uncapped(budget) ==
    IF budget.total_demand_lpd = 0
    THEN 1000
    ELSE RoundedPercent(budget.total_supply_lpd, budget.total_demand_lpd)

sustainability_index(budget) ==
    IF budget.total_demand_lpd = 0
    THEN 1000
    ELSE LET capped == IF budget.total_supply_lpd > budget.total_demand_lpd
                       THEN budget.total_demand_lpd
                       ELSE budget.total_supply_lpd
         IN  RoundedPercent(capped, budget.total_demand_lpd)

(***************************************************************************)
(* WaterBudgetPlanner is stateless: sustainability_index is asked for any  *)
(* budget of Budgets, with demands 0 and positive and supplies below, at   *)
(* and above each demand.                                                  *)
(***************************************************************************)
Budgets ==
    [ panchayat_id : {"", "GP001"}, year : {0, 2024},
      total_demand_lpd : {0, 3, 5000, 10000},
      total_supply_lpd : {0, 1, 2, 4999, 5000, 9999, 10000, 20000},
      domestic_demand_lpd : {0}, agriculture_demand_lpd : {0},
      industrial_demand_lpd : {0} ]

(***************************************************************************)
(* core.py, WaterBudgetPlanner.estimate_demand.  irrigated_hectares is in  *)
(* hundredths of a hectare; the demands are whole litres per day, each     *)
(* rounded to 0 decimals from a sum that is carried exactly, as a number   *)
(* of 365ths of a litre: hectares * 500 * 1000 / 365 is hundredths * 500   *)
(* * 10 of them.  The budget's fields are written in the order in which    *)
(* TLC keeps the fields of a record.                                       *)
(***************************************************************************)
DOMESTIC_LPCD == 55
LIVESTOCK_LPCD == 30
IRRIGATION_MM_PER_HECTARE == 500

\* estimate_demand whose agriculture field leaves the livestock demand out.
estimate_demand_area_only(population, livestock, irrigated_hectares) ==
    LET domestic == population * DOMESTIC_LPCD
        agriculture == irrigated_hectares * IRRIGATION_MM_PER_HECTARE * 10
        livestock_demand == livestock * LIVESTOCK_LPCD
        Whole(litres, parts) ==
            RoundHalfEven(litres * 365 + parts, 365) \div 365
    IN  [ panchayat_id |-> "", total_supply_lpd |-> 0, year |-> 0,
          total_demand_lpd |-> Whole(domestic + livestock_demand, agriculture),
          domestic_demand_lpd |-> Whole(domestic, 0),
          agriculture_demand_lpd |-> Whole(0, agriculture),
          industrial_demand_lpd |-> 0 ]

estimate_demand(population, livestock, irrigated_hectares) ==
    LET domestic == population * DOMESTIC_LPCD
        agriculture == irrigated_hectares * IRRIGATION_MM_PER_HECTARE * 10
        livestock_demand == livestock * LIVESTOCK_LPCD
        Whole(litres, parts) ==
            RoundHalfEven(litres * 365 + parts, 365) \div 365
    IN  [ panchayat_id |-> "", total_supply_lpd |-> 0, year |-> 0,
          total_demand_lpd |-> Whole(domestic + livestock_demand, agriculture),
          domestic_demand_lpd |-> Whole(domestic, 0),
          agriculture_demand_lpd |-> Whole(livestock_demand, agriculture),
          industrial_demand_lpd |-> 0 ]

EstimateDemandCall(population, livestock, irrigated_hectares) ==
    Answers([op |-> "estimate_demand",
             args |-> [population |-> population, livestock |-> livestock,
                       irrigated_hectares |-> irrigated_hectares]],
            estimate_demand(population, livestock, irrigated_hectares))

SustainabilityIndex ==
    \E budget \in Budgets :
        Answers([op |-> "sustainability_index", budget |-> budget],
                sustainability_index(budget))

\* estimate_demand is asked for 0 to 73 hectares (0, 1, 50, 100, 250,
\* 1000, 7300 hundredths), with and without people and livestock.
NextPlanner ==
    \/ SustainabilityIndex
    \/ \E population \in {0, 1, 3, 1000}, livestock \in {0, 1, 10, 100},
          irrigated_hectares \in {0, 1, 50, 100, 250, 1000, 7300} :
           EstimateDemandCall(population, livestock, irrigated_hectares)

SpecPlanner == Init /\ [][NextPlanner]_vars

(***************************************************************************)
(* C15.  sustainability_index is within [0, 100]; it is 100 when total     *)
(* demand is 0 and whenever supply >= demand > 0, and when supply < demand *)
(* it is supply / demand * 100 rounded to 1 decimal.                       *)
(***************************************************************************)
C15_SustainabilityIndexRounded ==
    Checked("sustainability_index") =>
        LET demand == call.budget.total_demand_lpd
            supply == call.budget.total_supply_lpd
        IN  /\ 0 <= ret /\ ret <= 1000
            /\ demand = 0 => ret = 1000
            /\ supply >= demand /\ demand > 0 => ret = 1000
            /\ supply < demand =>
                  2 * Distance(ret * demand, 1000 * supply) <= demand

(***************************************************************************)
(* C15 as stated, without the rounding: supply / demand * 100 exactly when *)
(* supply < demand.                                                        *)
(***************************************************************************)
C15_SustainabilityIndexExact ==
    Checked("sustainability_index") =>
        LET demand == call.budget.total_demand_lpd
            supply == call.budget.total_supply_lpd
        IN  /\ 0 <= ret /\ ret <= 1000
            /\ demand = 0 => ret = 1000
            /\ supply >= demand /\ demand > 0 => ret = 1000
            /\ supply < demand => ret * demand = 1000 * supply

\* A supply of 9999 against a demand of 10000: 99.99 % is returned as 100.0.
C15_Witness ==
    /\ Checked("sustainability_index")
    /\ call.budget.total_supply_lpd = 9999
    /\ call.budget.total_demand_lpd = 10000
    /\ ret = 1000

(***************************************************************************)
(* core.py, RainfallAnalyzer.drought_risk and flood_risk; the deviation is *)
(* tenths of a percent, so -60 is -600.                                    *)
(***************************************************************************)
\* drought_risk with < for <=.
drought_risk_strict(records, panchayat_id, year) ==
    LET dev == annual_deviation_pct(records, panchayat_id, year)
    IN  IF dev < -600 THEN "severe_drought"
        ELSE IF dev < -400 THEN "moderate_drought"
        ELSE IF dev < -200 THEN "mild_drought"
        ELSE "normal"

drought_risk(records, panchayat_id, year) ==
    LET dev == annual_deviation_pct(records, panchayat_id, year)
    IN  IF dev <= -600 THEN "severe_drought"
        ELSE IF dev <= -400 THEN "moderate_drought"
        ELSE IF dev <= -200 THEN "mild_drought"
        ELSE "normal"

\* flood_risk with > for >=.
flood_risk_strict(records, panchayat_id, year) ==
    LET dev == annual_deviation_pct(records, panchayat_id, year)
    IN  IF dev > 600 THEN "high_flood_risk"
        ELSE IF dev > 300 THEN "moderate_flood_risk"
        ELSE "normal"

flood_risk(records, panchayat_id, year) ==
    LET dev == annual_deviation_pct(records, panchayat_id, year)
    IN  IF dev >= 600 THEN "high_flood_risk"
        ELSE IF dev >= 300 THEN "moderate_flood_risk"
        ELSE "normal"

DroughtRiskCall(panchayat_id, year) ==
    Answers([op |-> "drought_risk", panchayat_id |-> panchayat_id, year |-> year],
            drought_risk(rain_records, panchayat_id, year))

FloodRiskCall(panchayat_id, year) ==
    Answers([op |-> "flood_risk", panchayat_id |-> panchayat_id, year |-> year],
            flood_risk(rain_records, panchayat_id, year))

(***************************************************************************)
(* One RainfallAnalyzer: add appends any record of RainRecords, up to      *)
(* MaxRainRecords of them.  Against a normal of 1000 mm the rainfalls sit  *)
(* on, just below and just above each band limit (-60.2 %, -60 %,          *)
(* -59.8 %, ...), and 400.04 mm and 1299.96 mm deviate by -59.996 % and    *)
(* 29.996 %.  All amounts are such that no sum of them is an exact         *)
(* rounding tie.                                                           *)
(***************************************************************************)
RainfallAmounts ==
    {39800, 40000, 40004, 40200, 60000, 60200, 80000, 80200, 100000,
     129800, 129996, 130000, 159800, 160000}

RainRecords ==
    [ panchayat_id : {"GP001"}, month : {7}, year : {2024},
      rainfall_mm : RainfallAmounts, normal_mm : {100000} ]
    \cup
    { [ panchayat_id |-> "GP001", year |-> 2024, normal_mm |-> 0,
        rainfall_mm |-> 50000, month |-> 7 ],
      [ panchayat_id |-> "GP001", year |-> 2023, normal_mm |-> 100000,
        rainfall_mm |-> 40000, month |-> 7 ],
      [ panchayat_id |-> "GP002", year |-> 2024, normal_mm |-> 100000,
        rainfall_mm |-> 160000, month |-> 1 ] }

NextRainfall ==
    \/ /\ Len(rain_records) < MaxRainRecords
       /\ \E record \in RainRecords : RainfallAddCall(record)
    \/ \E panchayat_id \in PanchayatIds, year \in RainYears :
           AnnualDeviationPctCall(panchayat_id, year)
    \/ \E panchayat_id \in PanchayatIds, year \in RainYears :
           DroughtRiskCall(panchayat_id, year)
    \/ \E panchayat_id \in PanchayatIds, year \in RainYears :
           FloodRiskCall(panchayat_id, year)

SpecRainfall == Init /\ [][NextRainfall]_vars

\* The sum of a field over the records of the unit and year of the call.
AnnualSum(field) ==
    LET OfYear(r) == r.panchayat_id = call.panchayat_id /\ r.year = call.year
        matching == SelectSeq(rain_records, OfYear)
    IN  SumSeq([i \in 1..Len(matching) |-> matching[i][field]])

\* The values dev, in tenths of a percent, that are excess / normal * 100
\* rounded to 1 decimal (two values on an exact tie); 0 when normal is 0.
RoundedDeviations(excess, normal) ==
    IF normal = 0 THEN {0}
    ELSE { dev \in ((1000 * excess) \div normal)..((1000 * excess) \div normal + 1) :
              2 * Distance(dev * normal, 1000 * excess) <= normal }

(***************************************************************************)
(* C16.  With the annual deviation taken as annual_deviation_pct returns   *)
(* it, that is (sum of rainfall - sum of normal) / sum of normal * 100     *)
(* over the unit's records of the year rounded to 1 decimal, and 0 when    *)
(* the sum of normal is 0: drought_risk is severe_drought at <= -60,       *)
(* moderate_drought in (-60, -40], mild_drought in (-40, -20] and normal   *)
(* otherwise; flood_risk is high_flood_risk at >= 60, moderate_flood_risk  *)
(* in [30, 60) and normal otherwise.                                       *)
(***************************************************************************)
C16_RiskBandsRounded ==
    LET normal == AnnualSum("normal_mm")
        excess == AnnualSum("rainfall_mm") - normal
    IN  /\ Checked("annual_deviation_pct") =>
              ret \in RoundedDeviations(excess, normal)
        /\ Checked("drought_risk") =>
              \E dev \in RoundedDeviations(excess, normal) :
                  ret = IF dev <= -600 THEN "severe_drought"
                        ELSE IF dev <= -400 THEN "moderate_drought"
                        ELSE IF dev <= -200 THEN "mild_drought"
                        ELSE "normal"
        /\ Checked("flood_risk") =>
              \E dev \in RoundedDeviations(excess, normal) :
                  ret = IF dev >= 600 THEN "high_flood_risk"
                        ELSE IF dev >= 300 THEN "moderate_flood_risk"
                        ELSE "normal"

(***************************************************************************)
(* C16 as stated, the bands applied to the deviation (sum of rainfall -    *)
(* sum of normal) / sum of normal * 100 itself, for years with a positive  *)
(* sum of normal: excess / normal * 100 <= -60 iff 100 * excess <=         *)
(* -60 * normal.                                                           *)
(***************************************************************************)
C16_RiskBandsExact ==
    LET normal == AnnualSum("normal_mm")
        excess == AnnualSum("rainfall_mm") - normal
    IN  /\ Checked("drought_risk") /\ normal > 0 =>
              ret = IF 100 * excess <= -60 * normal THEN "severe_drought"
                    ELSE IF 100 * excess <= -40 * normal THEN "moderate_drought"
                    ELSE IF 100 * excess <= -20 * normal THEN "mild_drought"
                    ELSE "normal"
        /\ Checked("flood_risk") /\ normal > 0 =>
              ret = IF 100 * excess >= 60 * normal THEN "high_flood_risk"
                    ELSE IF 100 * excess >= 30 * normal THEN "moderate_flood_risk"
                    ELSE "normal"

\* 400.04 mm of rain against a normal of 1000 mm, in an analyzer that also
\* holds a record of another unit or year: -59.996 % is above -60 and
\* drought_risk is severe_drought.
C16_Witness ==
    /\ Checked("drought_risk")
    /\ call.panchayat_id = "GP001" /\ call.year = 2024
    /\ Len(rain_records) = 2
    /\ AnnualSum("rainfall_mm") = 40004
    /\ AnnualSum("normal_mm") = 100000
    /\ ret = "severe_drought"

(***************************************************************************)
(* One GroundwaterMonitor with records of all four seasons: add appends    *)
(* any record of SeasonRecords, up to MaxRecords of them.  For GP001 in    *)
(* 2024 the post-monsoon depths sit on and next to a recovery of 5 m, 2 m  *)
(* and 0 m from the pre-monsoon depth of 12 m; 2023 has both seasons.      *)
(***************************************************************************)
SeasonRecords ==
    [ panchayat_id : {"GP001"}, season : {POST_MONSOON}, year : {2024},
      depth_meters : {6999, 7000, 9999, 10000, 11999, 12000},
      previous_year_depth : {0} ]
    \cup
    { [ depth_meters |-> 12000, previous_year_depth |-> 0,
        panchayat_id |-> "GP001", year |-> 2024, season |-> PRE_MONSOON ],
      [ depth_meters |-> 9000, previous_year_depth |-> 0,
        panchayat_id |-> "GP001", year |-> 2024, season |-> MONSOON ],
      [ depth_meters |-> 11000, previous_year_depth |-> 0,
        panchayat_id |-> "GP001", year |-> 2024, season |-> WINTER ],
      [ depth_meters |-> 12000, previous_year_depth |-> 0,
        panchayat_id |-> "GP001", year |-> 2023, season |-> PRE_MONSOON ],
      [ depth_meters |-> 7000, previous_year_depth |-> 0,
        panchayat_id |-> "GP001", year |-> 2023, season |-> POST_MONSOON ],
      [ depth_meters |-> 7000, previous_year_depth |-> 0,
        panchayat_id |-> "GP002", year |-> 2024, season |-> POST_MONSOON ] }

NextSeasons ==
    \/ /\ Len(gw_records) < MaxRecords
       /\ \E record \in SeasonRecords : AddCall(record)
    \/ \E panchayat_id \in PanchayatIds : GroundwaterByPanchayatCall(panchayat_id)
    \/ \E panchayat_id \in PanchayatIds : LatestCall(panchayat_id)
    \/ \E panchayat_id \in PanchayatIds : RechargePotentialCall(panchayat_id)

SpecSeasons == Init /\ [][NextSeasons]_vars

\* The records added for the unit of the call, in the order of their addition.
AddedForUnit ==
    LET InUnit(r) == r.panchayat_id = call.panchayat_id
    IN  SelectSeq(gw_records, InUnit)

\* The number of times a record occurs in a list.
Occurrences(record, records) ==
    Cardinality({ i \in 1..Len(records) : records[i] = record })

\* The place of a season's label among the four labels in text order.
LabelRank(season) ==
    CASE season = MONSOON -> 1
      [] season = POST_MONSOON -> 2
      [] season = PRE_MONSOON -> 3
      [] season = WINTER -> 4

\* r1 is not after r2: an earlier year, or the same year and a label that
\* is not later.
NotAfter(r1, r2) ==
    \/ r1.year < r2.year
    \/ r1.year = r2.year /\ LabelRank(r1.season) <= LabelRank(r2.season)

(***************************************************************************)
(* C17.  by_panchayat(unit) returns exactly the records added for the      *)
(* unit, each as often as it was added, ascending by year and within a     *)
(* year by season label (monsoon < post_monsoon < pre_monsoon < winter),   *)
(* whatever the order of addition.  latest(unit) is None for a unit        *)
(* without records and otherwise a record of the unit that no record of    *)
(* the unit comes after; so when the unit's greatest year has a            *)
(* pre-monsoon and a post-monsoon record, latest is a pre-monsoon record   *)
(* of that year unless a winter record of that year exists.                *)
(***************************************************************************)
C17_ByPanchayatSorted ==
    /\ Checked("GroundwaterMonitor.by_panchayat") =>
          /\ Len(ret) = Len(AddedForUnit)
          /\ \A i \in 1..Len(ret) :
                Occurrences(ret[i], ret) = Occurrences(ret[i], AddedForUnit)
          /\ \A i \in 1..Len(ret) : \A j \in i..Len(ret) : NotAfter(ret[i], ret[j])
    /\ Checked("latest") =>
          LET added == AddedForUnit
              InGreatestYear(season) ==
                  \E i \in 1..Len(added) :
                      /\ added[i].season = season
                      /\ \A j \in 1..Len(added) : added[j].year <= added[i].year
          IN  /\ added = <<>> => ret = None
              /\ added # <<>> =>
                    /\ \E i \in 1..Len(added) : ret = added[i]
                    /\ \A i \in 1..Len(added) : NotAfter(added[i], ret)
              /\ ( /\ InGreatestYear(PRE_MONSOON)
                   /\ InGreatestYear(POST_MONSOON)
                   /\ ~InGreatestYear(WINTER) )
                    => /\ ret.season = PRE_MONSOON
                       /\ \A i \in 1..Len(added) : added[i].year <= ret.year

\* GP001 with a 2023 record and, added in this order, the pre-monsoon and
\* then a post-monsoon record of 2024: latest is the pre-monsoon one.
C17_Witness ==
    /\ Checked("latest")
    /\ call.panchayat_id = "GP001"
    /\ Len(gw_records) = 3
    /\ gw_records[1].year = 2023
    /\ gw_records[2].year = 2024 /\ gw_records[2].season = PRE_MONSOON
    /\ gw_records[3].year = 2024 /\ gw_records[3].season = POST_MONSOON
    /\ ret = gw_records[2]

(***************************************************************************)
(* C18.  recharge_potential(unit) is insufficient_data when the unit has   *)
(* no pre-monsoon record, no post-monsoon record, or when the greatest     *)
(* year of its pre-monsoon records is not the greatest year of its         *)
(* post-monsoon records; otherwise, for a pre-monsoon and a post-monsoon   *)
(* record of that year and recovery = pre-monsoon depth - post-monsoon     *)
(* depth, it is high when recovery > 5, moderate when 2 < recovery <= 5,   *)
(* low when 0 < recovery <= 2 and negligible when recovery <= 0.           *)
(***************************************************************************)
C18_RechargePotential ==
    Checked("recharge_potential") =>
        LET added == AddedForUnit
            Of(season) == { i \in 1..Len(added) : added[i].season = season }
            GreatestYear(season) ==
                CHOOSE y \in { added[i].year : i \in Of(season) } :
                    \A i \in Of(season) : added[i].year <= y
        IN  IF \/ Of(PRE_MONSOON) = {}
               \/ Of(POST_MONSOON) = {}
               \/ GreatestYear(PRE_MONSOON) # GreatestYear(POST_MONSOON)
            THEN ret = "insufficient_data"
            ELSE \E p \in Of(PRE_MONSOON), q \in Of(POST_MONSOON) :
                    /\ added[p].year = GreatestYear(PRE_MONSOON)
                    /\ added[q].year = GreatestYear(POST_MONSOON)
                    /\ LET recovery == added[p].depth_meters - added[q].depth_meters
                       IN  ret = IF recovery > 5000 THEN "high"
                                 ELSE IF recovery > 2000 THEN "moderate"
                                 ELSE IF recovery > 0 THEN "low"
                                 ELSE "negligible"

\* GP001 with both seasons in 2023 and only a pre-monsoon record in 2024:
\* insufficient_data although 2023 is complete.
C18_Witness ==
    /\ Checked("recharge_potential")
    /\ call.panchayat_id = "GP001"
    /\ Len(gw_records) = 3
    /\ \E i, j, k \in 1..3 :
          /\ gw_records[i].year = 2023 /\ gw_records[i].season = PRE_MONSOON
          /\ gw_records[j].year = 2023 /\ gw_records[j].season = POST_MONSOON
          /\ gw_records[k].year = 2024 /\ gw_records[k].season = PRE_MONSOON
    /\ ret = "insufficient_data"

(***************************************************************************)
(* core.py, WaterQualityAnalyzer.identify_contaminants.  Each message is   *)
(* its text before the first value, the measured value and the limit;      *)
(* the coliform message has no value.                                      *)
(***************************************************************************)
\* identify_contaminants without the chloride test.
identify_contaminants_without_chloride(report) ==
    LET Issue(exceeded, message) == IF exceeded THEN <<message>> ELSE <<>>
    IN  Issue(report.ph < BIS_LIMITS.ph_min,
              <<"pH too low", report.ph, BIS_LIMITS.ph_min>>)
        \o Issue(report.ph > BIS_LIMITS.ph_max,
                 <<"pH too high", report.ph, BIS_LIMITS.ph_max>>)
        \o Issue(report.tds_ppm > BIS_LIMITS.tds_acceptable,
                 <<"TDS", report.tds_ppm, BIS_LIMITS.tds_acceptable>>)
        \o Issue(report.turbidity_ntu > BIS_LIMITS.turbidity_acceptable,
                 <<"Turbidity", report.turbidity_ntu, BIS_LIMITS.turbidity_acceptable>>)
        \o Issue(report.fluoride_ppm > BIS_LIMITS.fluoride_acceptable,
                 <<"Fluoride", report.fluoride_ppm, BIS_LIMITS.fluoride_acceptable>>)
        \o Issue(report.arsenic_ppb > BIS_LIMITS.arsenic_max_ppb,
                 <<"Arsenic", report.arsenic_ppb, BIS_LIMITS.arsenic_max_ppb>>)
        \o Issue(report.iron_ppm > BIS_LIMITS.iron_acceptable,
                 <<"Iron", report.iron_ppm, BIS_LIMITS.iron_acceptable>>)
        \o Issue(report.nitrate_ppm > BIS_LIMITS.nitrate_max,
                 <<"Nitrate", report.nitrate_ppm, BIS_LIMITS.nitrate_max>>)
        \o Issue(report.coliform_present, <<"Coliform bacteria detected">>)

identify_contaminants(report) ==
    LET Issue(exceeded, message) == IF exceeded THEN <<message>> ELSE <<>>
    IN  Issue(report.ph < BIS_LIMITS.ph_min,
              <<"pH too low", report.ph, BIS_LIMITS.ph_min>>)
        \o Issue(report.ph > BIS_LIMITS.ph_max,
                 <<"pH too high", report.ph, BIS_LIMITS.ph_max>>)
        \o Issue(report.tds_ppm > BIS_LIMITS.tds_acceptable,
                 <<"TDS", report.tds_ppm, BIS_LIMITS.tds_acceptable>>)
        \o Issue(report.turbidity_ntu > BIS_LIMITS.turbidity_acceptable,
                 <<"Turbidity", report.turbidity_ntu, BIS_LIMITS.turbidity_acceptable>>)
        \o Issue(report.fluoride_ppm > BIS_LIMITS.fluoride_acceptable,
                 <<"Fluoride", report.fluoride_ppm, BIS_LIMITS.fluoride_acceptable>>)
        \o Issue(report.arsenic_ppb > BIS_LIMITS.arsenic_max_ppb,
                 <<"Arsenic", report.arsenic_ppb, BIS_LIMITS.arsenic_max_ppb>>)
        \o Issue(report.iron_ppm > BIS_LIMITS.iron_acceptable,
                 <<"Iron", report.iron_ppm, BIS_LIMITS.iron_acceptable>>)
        \o Issue(report.nitrate_ppm > BIS_LIMITS.nitrate_max,
                 <<"Nitrate", report.nitrate_ppm, BIS_LIMITS.nitrate_max>>)
        \o Issue(report.chloride_ppm > BIS_LIMITS.chloride_acceptable,
                 <<"Chloride", report.chloride_ppm, BIS_LIMITS.chloride_acceptable>>)
        \o Issue(report.coliform_present, <<"Coliform bacteria detected">>)

(***************************************************************************)
(* The analyzer and a fresh engine on one report: the specification starts *)
(* with a call of grade_report, check_quality, identify_contaminants or    *)
(* recommend_treatment pending on any report of AnalyzerReports, and its   *)
(* actions run it.  The report is the argument object: call.report after   *)
(* the call is the report as the call left it.                             *)
(***************************************************************************)
AnalyzerReports ==
    [ report_id : {"R1"}, source_id : {"S1"}, test_date : {"2024-01-15"},
      ph : {49, 64, 65, 85, 86}, tds_ppm : {5000, 5001, 20001},
      turbidity_ntu : {10, 11}, chloride_ppm : {2500, 2501},
      fluoride_ppm : {10, 11}, arsenic_ppb : {100, 101}, iron_ppm : {3, 4},
      nitrate_ppm : {450, 451}, coliform_present : BOOLEAN,
      grade : WaterQualityGrade ]

InitAnalyzer ==
    /\ alert_counter = 0
    /\ issued = <<>>
    /\ sources = <<>>
    /\ gw_records = <<>>
    /\ jjm_records = <<>>
    /\ rain_records = <<>>
    /\ call \in [ op : {"grade_report", "check_quality", "identify_contaminants",
                       "recommend_treatment"},
                  report : AnalyzerReports ]
    /\ ret = <<>>
    /\ pc = "called"

CheckQualityCall ==
    /\ pc = "called"
    /\ call.op = "check_quality"
    /\ Returns(check_quality(alert_counter, call.report))
    /\ UNCHANGED call

IdentifyContaminantsCall ==
    /\ pc = "called"
    /\ call.op = "identify_contaminants"
    /\ ret' = identify_contaminants(call.report)
    /\ pc' = "returned"
    /\ UNCHANGED <<alert_counter, issued, sources, gw_records, jjm_records,
                   rain_records, call>>

(***************************************************************************)
(* core.py, WaterQualityAnalyzer.recommend_treatment.                      *)
(***************************************************************************)
\* recommend_treatment without the iron test.
recommend_treatment_without_iron(report) ==
    LET Treatment(needed, treatment) == IF needed THEN <<treatment>> ELSE <<>>
    IN  Treatment(report.coliform_present,
                  "Chlorination or UV disinfection for bacterial contamination")
        \o Treatment(report.tds_ppm > BIS_LIMITS.tds_acceptable,
                     "Reverse osmosis (RO) for high TDS")
        \o Treatment(report.fluoride_ppm > BIS_LIMITS.fluoride_acceptable,
                     "Activated alumina or bone char defluoridation")
        \o Treatment(report.arsenic_ppb > BIS_LIMITS.arsenic_max_ppb,
                     "Arsenic removal plant (oxidation + adsorption)")
        \o Treatment(report.turbidity_ntu > BIS_LIMITS.turbidity_acceptable,
                     "Slow sand filtration or coagulation-flocculation")
        \o Treatment(report.nitrate_ppm > BIS_LIMITS.nitrate_max,
                     "Ion exchange or biological denitrification")
        \o Treatment(report.ph < BIS_LIMITS.ph_min,
                     "Lime dosing to raise pH")
        \o Treatment(report.ph > BIS_LIMITS.ph_max,
                     "Acid dosing or CO2 injection to lower pH")

recommend_treatment(report) ==
    LET Treatment(needed, treatment) == IF needed THEN <<treatment>> ELSE <<>>
    IN  Treatment(report.coliform_present,
                  "Chlorination or UV disinfection for bacterial contamination")
        \o Treatment(report.tds_ppm > BIS_LIMITS.tds_acceptable,
                     "Reverse osmosis (RO) for high TDS")
        \o Treatment(report.fluoride_ppm > BIS_LIMITS.fluoride_acceptable,
                     "Activated alumina or bone char defluoridation")
        \o Treatment(report.arsenic_ppb > BIS_LIMITS.arsenic_max_ppb,
                     "Arsenic removal plant (oxidation + adsorption)")
        \o Treatment(report.iron_ppm > BIS_LIMITS.iron_acceptable,
                     "Aeration and filtration for iron removal")
        \o Treatment(report.turbidity_ntu > BIS_LIMITS.turbidity_acceptable,
                     "Slow sand filtration or coagulation-flocculation")
        \o Treatment(report.nitrate_ppm > BIS_LIMITS.nitrate_max,
                     "Ion exchange or biological denitrification")
        \o Treatment(report.ph < BIS_LIMITS.ph_min,
                     "Lime dosing to raise pH")
        \o Treatment(report.ph > BIS_LIMITS.ph_max,
                     "Acid dosing or CO2 injection to lower pH")

RecommendTreatmentCall ==
    /\ pc = "called"
    /\ call.op = "recommend_treatment"
    /\ ret' = recommend_treatment(call.report)
    /\ pc' = "returned"
    /\ UNCHANGED <<alert_counter, issued, sources, gw_records, jjm_records,
                   rain_records, call>>

NextAnalyzer ==
    \/ GradeReportCall
    \/ CheckQualityCall
    \/ IdentifyContaminantsCall
    \/ RecommendTreatmentCall

SpecAnalyzer == InitAnalyzer /\ [][NextAnalyzer]_vars

(***************************************************************************)
(* C19.  The grade is recomputed from the measured parameters: whatever    *)
(* grade the report is given in its grade field, grade_report returns the  *)
(* same grade and check_quality returns alerts of the same number and      *)
(* levels; and grade_report leaves the report, grade field included, as it *)
(* was.                                                                    *)
(***************************************************************************)
C19_GradeRecomputed ==
    [][ /\ (pc' = "returned" /\ call'.op = "grade_report") =>
              /\ call'.report = call.report
              /\ \A g \in WaterQualityGrade :
                    grade_report([call.report EXCEPT !.grade = g]) = ret'
        /\ (pc' = "returned" /\ call'.op = "check_quality") =>
              \A g \in WaterQualityGrade :
                  LET other == check_quality(alert_counter,
                                   [call.report EXCEPT !.grade = g]).alerts
                  IN  /\ Len(other) = Len(ret')
                      /\ \A i \in 1..Len(other) : other[i].level = ret'[i].level
      ]_vars

\* A report marked safe in which coliform is present: check_quality has
\* returned one EMERGENCY alert and the report is still marked safe.
C19_Witness ==
    /\ Checked("check_quality")
    /\ call.report.grade = SAFE
    /\ call.report.coliform_present
    /\ Len(ret) = 1
    /\ ret[1].level = EMERGENCY

(***************************************************************************)
(* C20.  identify_contaminants returns one message for each of the ten     *)
(* conditions that holds and none for one that does not, in the order      *)
(* pH < 6.5, pH > 8.5, TDS > 500, turbidity > 1, fluoride > 1.0,           *)
(* arsenic > 10, iron > 0.3, nitrate > 45, chloride > 250, coliform        *)
(* present; the list is empty iff none of the ten holds.                   *)
(***************************************************************************)
C20_IdentifyContaminants ==
    Checked("identify_contaminants") =>
        LET r == call.report
            conditions ==
                << <<r.ph < 65, "pH too low">>,
                   <<r.ph > 85, "pH too high">>,
                   <<r.tds_ppm > 5000, "TDS">>,
                   <<r.turbidity_ntu > 10, "Turbidity">>,
                   <<r.fluoride_ppm > 10, "Fluoride">>,
                   <<r.arsenic_ppb > 100, "Arsenic">>,
                   <<r.iron_ppm > 3, "Iron">>,
                   <<r.nitrate_ppm > 450, "Nitrate">>,
                   <<r.chloride_ppm > 2500, "Chloride">>,
                   <<r.coliform_present, "Coliform bacteria detected">> >>
            Holds(c) == c[1]
            holding == SelectSeq(conditions, Holds)
        IN  /\ Len(ret) = Len(holding)
            /\ \A i \in 1..Len(ret) : ret[i][1] = holding[i][2]
            /\ (ret = <<>>) <=> (\A k \in 1..10 : ~conditions[k][1])

\* A report with low pH, high TDS, high chloride and coliform: four
\* messages, in that order.
C20_Witness ==
    /\ Checked("identify_contaminants")
    /\ Len(ret) = 4
    /\ ret[1][1] = "pH too low"
    /\ ret[2][1] = "TDS"
    /\ ret[3][1] = "Chloride"
    /\ ret[4][1] = "Coliform bacteria detected"

(***************************************************************************)
(* One SourceManager under every per-unit query: register inserts any      *)
(* source of PartitionSources (two ids, capacity 0 or 10000, yield 30 %,   *)
(* 39.96 % or 40 % of 10000), and each query may be asked of any unit with *)
(* any threshold of Thresholds.                                            *)
(***************************************************************************)
PartitionSources ==
    [ source_id : {"S1", "S2"}, panchayat_id : PanchayatIds,
      name : {"Borewell"}, source_type : {"borewell"},
      capacity_liters_per_day : {0, 10000},
      current_yield_lpd : {3000, 3996, 4000}, is_functional : BOOLEAN ]

Thresholds == {0, 1, DefaultThresholdPct}

NextPartition ==
    \/ \E source \in PartitionSources : RegisterCall(source)
    \/ \E panchayat_id \in LookupPanchayatIds :
           SourceByPanchayatCall(panchayat_id)
    \/ \E panchayat_id \in LookupPanchayatIds :
           FunctionalSourcesCall(panchayat_id)
    \/ \E panchayat_id \in LookupPanchayatIds :
           NonFunctionalSourcesCall(panchayat_id)
    \/ \E panchayat_id \in LookupPanchayatIds :
           TotalSupplyLpdCall(panchayat_id)
    \/ \E panchayat_id \in LookupPanchayatIds, threshold_pct \in Thresholds :
           LowYieldSourcesCall(panchayat_id, threshold_pct)

SpecPartition == Init /\ [][NextPartition]_vars

ElementsOf(xs) == { xs[i] : i \in 1..Len(xs) }

RECURSIVE YieldOver(_)
YieldOver(S) ==
    IF S = {} THEN 0
    ELSE LET s == CHOOSE x \in S : TRUE
         IN  s.current_yield_lpd + YieldOver(S \ {s})

\* The yield percentage current / capacity * 100, 0 without capacity, is
\* strictly below t tenths of a percent.
YieldBelow(s, t) ==
    IF s.capacity_liters_per_day = 0
    THEN 0 < t
    ELSE 1000 * s.current_yield_lpd < t * s.capacity_liters_per_day

\* The same percentage rounded to the nearest tenth is strictly below t.
RoundedYieldBelow(s, t) ==
    IF s.capacity_liters_per_day = 0
    THEN 0 < t
    ELSE LET num == 1000 * s.current_yield_lpd
             den == s.capacity_liters_per_day
             q == num \div den
         IN  \A r \in {q, q + 1} :
                 2 * Distance(r * den, num) <= den => r < t

\* The partition and total of one unit, with Low(s, t) telling which
\* functional sources are expected in low_yield_sources(unit, t).
SourcePartition(panchayat_id, Low(_, _)) ==
    LET unit == by_panchayat(sources, panchayat_id)
        functional == functional_sources(sources, panchayat_id)
        non_functional == non_functional_sources(sources, panchayat_id)
    IN  /\ ElementsOf(functional) \cap ElementsOf(non_functional) = {}
        /\ ElementsOf(functional) \cup ElementsOf(non_functional)
               = ElementsOf(unit)
        /\ Len(functional) + Len(non_functional) = Len(unit)
        /\ total_supply_lpd(sources, panchayat_id)
               = YieldOver(ElementsOf(functional))
        /\ \A t \in Thresholds :
               LET low == low_yield_sources(sources, panchayat_id, t)
               IN  /\ ElementsOf(low)
                          = { s \in ElementsOf(functional) : Low(s, t) }
                   /\ Len(low) = Cardinality(ElementsOf(low))
                   /\ \A s \in ElementsOf(unit) :
                          /\ (s.is_functional
                                /\ s.capacity_liters_per_day = 0 /\ t > 0)
                                 => s \in ElementsOf(low)
                          /\ ~s.is_functional => s \notin ElementsOf(low)

(***************************************************************************)
(* C21.  In every SourceManager state and for every unit,                  *)
(* functional_sources and non_functional_sources are disjoint and together *)
(* are by_panchayat; total_supply_lpd is the sum of current yield over     *)
(* functional_sources; and low_yield_sources(unit, t) is exactly the       *)
(* functional sources whose yield percentage, rounded to 1 decimal, is     *)
(* strictly below t, so a functional source of capacity 0 is low-yield for *)
(* every t > 0 and a non-functional source never is.                       *)
(***************************************************************************)
C21_SourcePartitionRounded ==
    \A panchayat_id \in LookupPanchayatIds :
        SourcePartition(panchayat_id, RoundedYieldBelow)

\* C21 as stated, with the yield percentage current / capacity * 100 itself
\* compared with t.
C21_SourcePartitionExact ==
    \A panchayat_id \in LookupPanchayatIds :
        SourcePartition(panchayat_id, YieldBelow)

\* GP001 holds a functional source without capacity and a non-functional
\* one; low_yield_sources at the default threshold has returned the first
\* only.
C21_Witness ==
    /\ Checked("low_yield_sources")
    /\ call.panchayat_id = "GP001"
    /\ call.threshold_pct = DefaultThresholdPct
    /\ Len(by_panchayat(sources, "GP001")) = 2
    /\ Len(non_functional_sources(sources, "GP001")) = 1
    /\ Len(ret) = 1
    /\ ret[1].is_functional
    /\ ret[1].capacity_liters_per_day = 0

\* A functional source yielding 39.96 % of its capacity is in the unit and
\* low_yield_sources at the default threshold has returned nothing.
C21_RoundedUpWitness ==
    /\ Checked("low_yield_sources")
    /\ call.threshold_pct = DefaultThresholdPct
    /\ ret = <<>>
    /\ \E s \in ElementsOf(functional_sources(sources, call.panchayat_id)) :
           /\ s.capacity_liters_per_day = 10000
           /\ s.current_yield_lpd = 3996

(***************************************************************************)
(* core.py, JJMTracker.coverage_summary, both averages in tenths of a      *)
(* percent: round(sum / len, 1) of the units' coverage_pct, and of the     *)
(* functional_pct of the units with fhtc_provided > 0.                     *)
(***************************************************************************)
\* coverage_summary that counts a unit without provided connections as 0.
coverage_summary_counting_unprovided(records) ==
    IF records = <<>>
    THEN [avg_coverage_pct |-> 0, avg_functional_pct |-> 0]
    ELSE LET coverages == [i \in 1..Len(records) |-> coverage_pct(records[i])]
             functionals == [i \in 1..Len(records) |-> functional_pct(records[i])]
         IN  [ avg_coverage_pct |->
                   RoundHalfEven(SumSeq(coverages), Len(coverages))
                       \div Len(coverages),
               avg_functional_pct |->
                   RoundHalfEven(SumSeq(functionals), Len(functionals))
                       \div Len(functionals) ]

coverage_summary(records) ==
    IF records = <<>>
    THEN [avg_coverage_pct |-> 0, avg_functional_pct |-> 0]
    ELSE LET Provided(s) == s.fhtc_provided > 0
             provided == SelectSeq(records, Provided)
             coverages == [i \in 1..Len(records) |-> coverage_pct(records[i])]
             functionals == [i \in 1..Len(provided) |-> functional_pct(provided[i])]
         IN  [ avg_coverage_pct |->
                   RoundHalfEven(SumSeq(coverages), Len(coverages))
                       \div Len(coverages),
               avg_functional_pct |->
                   IF functionals # <<>>
                   THEN RoundHalfEven(SumSeq(functionals), Len(functionals))
                            \div Len(functionals)
                   ELSE 0 ]

CoverageSummaryCall ==
    Answers([op |-> "coverage_summary"], coverage_summary(jjm_records))

(***************************************************************************)
(* One JJMTracker over three units.  The statuses have coverage 0 %, 50 %  *)
(* or 80 % and functional shares 25 %, 40 %, 50 % or 80 %, so that a mean  *)
(* over two units is a whole number of tenths and a mean over three units  *)
(* is not, and is never half-way between two tenths.                       *)
(***************************************************************************)
CoverageStatuses ==
    [ panchayat_id : {"GP001", "GP002", "GP003"}, panchayat_name : {"Rampur"},
      total_households : {0, 10}, fhtc_provided : {0, 5, 8},
      fhtc_functional : {2, 4}, target_date : {""}, report_date : {""} ]

NextCoverage ==
    \/ \E status \in CoverageStatuses : UpdateCall(status)
    \/ CoverageSummaryCall

SpecCoverage == Init /\ [][NextCoverage]_vars

\* The tracked units' coverage_pct, and the functional_pct of those with a
\* provided connection (0 in the place of the others).
TrackedCoverages ==
    [i \in 1..Len(jjm_records) |-> coverage_pct(jjm_records[i])]

TrackedFunctionals ==
    [i \in 1..Len(jjm_records) |->
        IF jjm_records[i].fhtc_provided > 0
        THEN functional_pct(jjm_records[i]) ELSE 0]

WithProvided == { i \in 1..Len(jjm_records) : jjm_records[i].fhtc_provided > 0 }

C23_EstimateDemandRounded ==
    Checked("estimate_demand") =>
        LET area == call.args.irrigated_hectares * 500 * 10
            domestic == call.args.population * 55
            livestock_demand == call.args.livestock * 30
        IN  /\ ret.domestic_demand_lpd = domestic
            /\ 2 * Distance(ret.agriculture_demand_lpd * 365,
                            livestock_demand * 365 + area) <= 365
            /\ 2 * Distance(ret.total_demand_lpd * 365,
                            (domestic + livestock_demand) * 365 + area)
                   <= 365
            /\ ret.industrial_demand_lpd = 0
            /\ ret.total_supply_lpd = 0
            /\ call.args.irrigated_hectares = 0 =>
                   ret.total_demand_lpd
                       = ret.domestic_demand_lpd + ret.agriculture_demand_lpd

\* C23 as stated: the total is domestic + area demand + livestock demand
\* itself.
C23_EstimateDemandExact ==
    Checked("estimate_demand") =>
        LET area == call.args.irrigated_hectares * 500 * 10
            domestic == call.args.population * 55
            livestock_demand == call.args.livestock * 30
        IN  /\ ret.domestic_demand_lpd = domestic
            /\ 2 * Distance(ret.agriculture_demand_lpd * 365,
                            livestock_demand * 365 + area) <= 365
            /\ ret.total_demand_lpd * 365
                   = (domestic + livestock_demand) * 365 + area
            /\ ret.industrial_demand_lpd = 0
            /\ ret.total_supply_lpd = 0
            /\ call.args.irrigated_hectares = 0 =>
                   ret.total_demand_lpd
                       = ret.domestic_demand_lpd + ret.agriculture_demand_lpd

\* 1000 people, 10 animals and one hectare: 55000 domestic, 300 + 1369.86
\* rounded to 1670 for agriculture, 56670 in total.
C23_Witness ==
    /\ Checked("estimate_demand")
    /\ call.args.population = 1000
    /\ call.args.livestock = 10
    /\ call.args.irrigated_hectares = 100
    /\ ret.domestic_demand_lpd = 55000
    /\ ret.agriculture_demand_lpd = 1670
    /\ ret.total_demand_lpd = 56670

(***************************************************************************)
(* One AlertEngine late in its life.  The engine has already issued 0, 8,  *)
(* 98, 998 or 9998 alerts when the observation starts; issued collects the *)
(* identifiers it issues from then on, at most MaxIssued of them, through  *)
(* check_rainfall.                                                         *)
(***************************************************************************)
MaxIssued == 3

InitLifetime ==
    /\ alert_counter \in {0, 8, 98, 998, 9998}
    /\ issued = <<>>
    /\ sources = <<>>
    /\ gw_records = <<>>
    /\ jjm_records = <<>>
    /\ rain_records = <<>>
    /\ call = [op |-> "init"]
    /\ ret = <<>>
    /\ pc = "ready"

LifetimeCheckRainfall ==
    /\ Len(issued) < MaxIssued
    /\ \E panchayat_id \in PanchayatIds, deviation \in Deviations :
        /\ call' = [op |-> "check_rainfall", panchayat_id |-> panchayat_id,
                    deviation_pct |-> deviation]
        /\ Returns(check_rainfall(alert_counter, panchayat_id, deviation))

SpecLifetime == InitLifetime /\ [][LifetimeCheckRainfall]_vars

(***************************************************************************)
(* C24.  Every alert identifier issued by an AlertEngine is the prefix     *)
(* ALERT- followed by the zero-padded counter, and all the identifiers the *)
(* engine issues over its lifetime have the same width.                    *)
(***************************************************************************)
C24_FixedWidthIds ==
    \A i, j \in 1..Len(issued) :
        /\ issued[i].prefix = "ALERT-"
        /\ SequenceNumber(issued[i]) = alert_counter - Len(issued) + i
        /\ Len(issued[i].digits) = Len(issued[j].digits)

(***************************************************************************)
(* Two AlertEngine instances.  In this specification alert_counter and     *)
(* issued hold one value per instance: alert_counter[e] is the attribute   *)
(* _alert_counter of engine e, which __init__ sets to 0, and issued[e] the *)
(* identifiers of the alerts e has returned, in order.  A check on engine  *)
(* e runs with e's counter and stores the new value in e.                  *)
(***************************************************************************)
Engines == {"E1", "E2"}

\* The counter as a class attribute: the store is seen by every instance.
store_counter_shared(counters, engine, counter) ==
    [e \in DOMAIN counters |-> counter]

\* self._alert_counter += 1 stores into the instance.
store_counter(counters, engine, counter) ==
    [counters EXCEPT ![engine] = counter]

InitEngines ==
    /\ alert_counter = [e \in Engines |-> 0]
    /\ issued = [e \in Engines |-> <<>>]
    /\ sources = <<>>
    /\ gw_records = <<>>
    /\ jjm_records = <<>>
    /\ rain_records = <<>>
    /\ call = [op |-> "init"]
    /\ ret = <<>>
    /\ pc = "ready"

EngineCall(engine, c, result) ==
    /\ call' = c
    /\ alert_counter' = store_counter(alert_counter, engine, result.counter)
    /\ issued' = [issued EXCEPT ![engine] = @ \o AlertIds(result.alerts)]
    /\ ret' = result.alerts
    /\ pc' = "returned"
    /\ UNCHANGED <<sources, gw_records, jjm_records, rain_records>>

\* Each check is called with inputs that raise no alert, one alert and (for
\* check_groundwater) two alerts.
NextEngines ==
    \E engine \in Engines :
        /\ alert_counter[engine] < MaxAlerts
        /\ \/ \E report \in { r \in EngineReports :
                                /\ r.source_id = "S1"
                                /\ r.test_date = "2024-01-15"
                                /\ r.turbidity_ntu = 10
                                /\ r.fluoride_ppm = 10
                                /\ ~r.coliform_present
                                /\ r.grade = SAFE } :
                  EngineCall(engine,
                      [op |-> "check_quality", report |-> report,
                       engine |-> engine],
                      check_quality(alert_counter[engine], report))
           \/ \E record \in { r \in EngineReadings :
                                /\ r.depth_meters \in {10000, 20004, 42006}
                                /\ r.previous_year_depth \in {10000, 40000} } :
                  EngineCall(engine,
                      [op |-> "check_groundwater", record |-> record,
                       engine |-> engine],
                      check_groundwater(alert_counter[engine], record))
           \/ \E population \in {0, 1000}, supply \in {0, 27000, 55000} :
                  EngineCall(engine,
                      [op |-> "check_supply", population |-> population,
                       total_supply_lpd |-> supply,
                       engine |-> engine],
                      check_supply(alert_counter[engine], population, supply))
           \/ \E deviation \in {-400, -399, 599, 600} :
                  EngineCall(engine,
                      [op |-> "check_rainfall", panchayat_id |-> "GP001",
                       deviation_pct |-> deviation, engine |-> engine],
                      check_rainfall(alert_counter[engine], "GP001", deviation))

SpecEngines == InitEngines /\ [][NextEngines]_vars

\* The call that has just returned is one of those the claim lists as
\* raising no alert.
QuietCall ==
    \/ /\ call.op = "check_quality"
       /\ grade_report(call.report) \in {SAFE, ACCEPTABLE}
    \/ /\ call.op = "check_groundwater"
       /\ call.record.depth_meters <= 20000
       /\ call.record.depth_meters <= call.record.previous_year_depth
    \/ /\ call.op = "check_supply"
       /\ \/ call.population = 0
          \/ call.total_supply_lpd >= 55 * call.population
    \/ /\ call.op = "check_rainfall"
       /\ -400 < call.deviation_pct
       /\ call.deviation_pct < 600

(***************************************************************************)
(* C25.  After any sequence of check_* calls on one AlertEngine its        *)
(* counter equals the number of alerts it has returned so far and the k-th *)
(* alert it returned carries sequence number k; a call that returns no     *)
(* alert (safe or acceptable report, shallow stable groundwater,           *)
(* population 0 or adequate supply, deviation strictly between -40 and 60) *)
(* leaves the counter unchanged; and a call on one engine never changes    *)
(* the counter of another.                                                 *)
(***************************************************************************)
C25_CounterCountsAlerts ==
    [][ pc' = "returned" =>
          /\ \A e \in Engines :
                /\ alert_counter'[e] = Len(issued'[e])
                /\ \A k \in 1..Len(issued'[e]) :
                      SequenceNumber(issued'[e][k]) = k
          /\ issued'[call'.engine]
                 = issued[call'.engine] \o AlertIds(ret')
          /\ alert_counter'[call'.engine]
                 = alert_counter[call'.engine] + Len(ret')
          /\ QuietCall' => /\ ret' = <<>>
                           /\ alert_counter' = alert_counter
          /\ \A e \in Engines \ {call'.engine} :
                alert_counter'[e] = alert_counter[e]
      ]_vars

\* E1 has returned three alerts, E2 one; a check_supply call on E2 with
\* population 0 has just returned nothing.
C25_Witness ==
    /\ Checked("check_supply")
    /\ call.engine = "E2"
    /\ call.population = 0
    /\ ret = <<>>
    /\ alert_counter = [e \in Engines |-> IF e = "E1" THEN 3 ELSE 1]

(***************************************************************************)
(* C26.  For every report, recommend_treatment returns an empty list iff   *)
(* grade_report returns SAFE, so every report graded ACCEPTABLE,           *)
(* CONTAMINATED or HAZARDOUS gets at least one recommendation; and every   *)
(* report for which check_quality emits an alert has a non-empty           *)
(* identify_contaminants list.                                             *)
(***************************************************************************)
C26_TreatmentIffNotSafe ==
    /\ Checked("recommend_treatment") =>
          /\ (ret = <<>>) <=> (grade_report(call.report) = SAFE)
          /\ grade_report(call.report) \in {ACCEPTABLE, CONTAMINATED, HAZARDOUS}
                 => Len(ret) >= 1
    /\ Checked("check_quality") =>
          (ret # <<>> => identify_contaminants(call.report) # <<>>)

\* A report whose only excess is iron just above 0.3: graded ACCEPTABLE,
\* and iron removal is the one treatment recommended.
C26_Witness ==
    /\ Checked("recommend_treatment")
    /\ grade_report(call.report) = ACCEPTABLE
    /\ ret = <<"Aeration and filtration for iron removal">>

(***************************************************************************)
(* One GroundwaterMonitor and one RainfallAnalyzer under repeated adds:    *)
(* the same record may be added again, and records of one unit, month and  *)
(* year with different amounts, of another year and of another unit.       *)
(***************************************************************************)
NextAppend ==
    \/ /\ Len(gw_records) < MaxLookupRecords
       /\ \E record \in { r \in GwRecords :
                            r.year = 2024 /\ r.depth_meters = 10000 } :
              AddCall(record)
    \/ /\ Len(rain_records) < MaxRainRecords
       /\ \E record \in { r \in RainRecords :
                            r.rainfall_mm \in {40000, 50000, 160000} } :
              RainfallAddCall(record)
    \/ \E panchayat_id \in LookupPanchayatIds :
           GroundwaterByPanchayatCall(panchayat_id)
    \/ \E panchayat_id \in LookupPanchayatIds, year \in RainYears :
           AnnualTotalCall(panchayat_id, year)
    \/ \E panchayat_id \in LookupPanchayatIds, year \in RainYears :
           AnnualNormalCall(panchayat_id, year)

SpecAppend == Init /\ [][NextAppend]_vars

\* The sum of one field over the rainfall records of a unit and year in
\* records, every record counted.
SumOfEvery(records, panchayat_id, year, field) ==
    SumSeq([i \in 1..Len(records) |->
              IF records[i].panchayat_id = panchayat_id /\ records[i].year = year
              THEN records[i][field] ELSE 0])

(***************************************************************************)
(* C27.  GroundwaterMonitor.add and RainfallAnalyzer.add never overwrite:  *)
(* each add lengthens by_panchayat of the record's unit by one and leaves  *)
(* the other units' lists as they were, so after any sequence of adds the  *)
(* length is the number of adds made for the unit; each rainfall add       *)
(* raises annual_total and annual_normal of the record's unit and year by  *)
(* the record's amounts and leaves the other totals as they were; and      *)
(* annual_total and annual_normal return the sums over every record added, *)
(* records of the same unit, month and year included.                      *)
(***************************************************************************)
C27_AddsNeverOverwrite ==
    [][ /\ (pc' = "returned" /\ call'.op = "add") =>
              \A u \in LookupPanchayatIds :
                  Len(GroundwaterMonitor_by_panchayat(gw_records', u))
                      = Len(GroundwaterMonitor_by_panchayat(gw_records, u))
                        + (IF u = call'.record.panchayat_id THEN 1 ELSE 0)
        /\ (pc' = "returned" /\ call'.op = "RainfallAnalyzer.add") =>
              \A u \in LookupPanchayatIds, y \in RainYears :
                  LET added == u = call'.record.panchayat_id
                                   /\ y = call'.record.year
                  IN  /\ annual_total(rain_records', u, y)
                             = annual_total(rain_records, u, y)
                               + (IF added THEN call'.record.rainfall_mm ELSE 0)
                      /\ annual_normal(rain_records', u, y)
                             = annual_normal(rain_records, u, y)
                               + (IF added THEN call'.record.normal_mm ELSE 0)
        /\ (pc' = "returned" /\ call'.op = "GroundwaterMonitor.by_panchayat") =>
              Len(ret') = Cardinality({ i \in 1..Len(gw_records') :
                              gw_records'[i].panchayat_id = call'.panchayat_id })
        /\ (pc' = "returned" /\ call'.op = "annual_total") =>
              ret' = SumOfEvery(rain_records', call'.panchayat_id, call'.year,
                                "rainfall_mm")
        /\ (pc' = "returned" /\ call'.op = "annual_normal") =>
              ret' = SumOfEvery(rain_records', call'.panchayat_id, call'.year,
                                "normal_mm")
      ]_vars

\* The same July 2024 record of GP001 was added twice: annual_total has
\* returned 800 mm, twice its 400 mm.
C27_Witness ==
    /\ Checked("annual_total")
    /\ call.panchayat_id = "GP001"
    /\ call.year = 2024
    /\ Len(rain_records) = 2
    /\ rain_records[1] = rain_records[2]
    /\ rain_records[1].rainfall_mm = 40000
    /\ ret = 80000

(***************************************************************************)
(* core.py, GroundwaterMonitor.categorize_level, the depth in millimetres. *)
(***************************************************************************)
\* categorize_level with <= for <.
categorize_level_inclusive(depth_meters) ==
    IF depth_meters <= 2000 THEN "very_shallow"
    ELSE IF depth_meters <= 8000 THEN "shallow"
    ELSE IF depth_meters <= 20000 THEN "moderate"
    ELSE IF depth_meters <= 40000 THEN "deep"
    ELSE "very_deep"

categorize_level(depth_meters) ==
    IF depth_meters < 2000 THEN "very_shallow"
    ELSE IF depth_meters < 8000 THEN "shallow"
    ELSE IF depth_meters < 20000 THEN "moderate"
    ELSE IF depth_meters < 40000 THEN "deep"
    ELSE "very_deep"

CategorizeLevelCall(depth_meters) ==
    Answers([op |-> "categorize_level", depth_meters |-> depth_meters],
            categorize_level(depth_meters))

(***************************************************************************)
(* A monitor and an engine asked about the same depths: 1 mm below, at and *)
(* 1 mm above each of 2, 8, 20 and 40 m, with a stable level and with a    *)
(* drop of 3 m since the previous year.                                    *)
(***************************************************************************)
NextDepth ==
    \/ /\ alert_counter < MaxAlerts
       /\ \E limit \in {2000, 8000, 20000, 40000}, offset \in {-1, 0, 1},
             drop \in {0, 3000} :
             LET record == [ depth_meters |-> limit + offset,
                             previous_year_depth |-> limit + offset - drop,
                             panchayat_id |-> "GP001", year |-> 2024,
                             season |-> PRE_MONSOON ]
             IN  /\ record.previous_year_depth >= 0
                 /\ call' = [op |-> "check_groundwater", record |-> record]
                 /\ Returns(check_groundwater(alert_counter, record))
    \/ \E limit \in {2000, 8000, 20000, 40000}, offset \in {-1, 0, 1} :
           CategorizeLevelCall(limit + offset)

SpecDepth == Init /\ [][NextDepth]_vars

\* The levels of the alerts of category "groundwater" among alerts.
DepthAlertLevels(alerts) ==
    { alerts[i].level : i \in { k \in 1..Len(alerts) :
                                  alerts[k].category = "groundwater" } }

\* What C28 says of one depth, its depth alerts and its category.
DepthAlertAgrees(depth, levels, category) ==
    /\ CRITICAL \in levels => category = "very_deep"
    /\ WARNING \in levels => category \in {"deep", "very_deep"}
    /\ category \in {"very_shallow", "shallow", "moderate"} => levels = {}
    /\ depth = 40000 => category = "very_deep" /\ levels = {WARNING}
    /\ depth = 20000 => category = "deep" /\ levels = {}
    /\ depth \notin {20000, 40000} =>
          /\ category = "very_deep" <=> levels = {CRITICAL}
          /\ category = "deep" <=> levels = {WARNING}

(***************************************************************************)
(* C28.  The depth alert of check_groundwater agrees with                  *)
(* categorize_level: a CRITICAL groundwater alert is emitted only for a    *)
(* depth categorized very_deep, a WARNING groundwater alert only for deep  *)
(* or very_deep, none for very_shallow, shallow or moderate; the two       *)
(* differ exactly at the boundaries: depth 40 is very_deep but only        *)
(* WARNING, depth 20 is deep but raises no depth alert.                    *)
(***************************************************************************)
C28_DepthAlertAgreesWithCategory ==
    /\ Checked("check_groundwater") =>
          DepthAlertAgrees(call.record.depth_meters, DepthAlertLevels(ret),
                           categorize_level(call.record.depth_meters))
    /\ Checked("categorize_level") =>
          DepthAlertAgrees(call.depth_meters,
              DepthAlertLevels(depth_alert(alert_counter,
                  [depth_meters |-> call.depth_meters,
                   panchayat_id |-> "GP001"]).alerts),
              ret)

\* Depth 40 m after a drop of 3 m: a WARNING depth alert and a trend alert,
\* and the depth is categorized very_deep.
C28_Witness ==
    /\ Checked("check_groundwater")
    /\ call.record.depth_meters = 40000
    /\ Len(ret) = 2
    /\ ret[1].category = "groundwater" /\ ret[1].level = WARNING
    /\ ret[2].category = "groundwater_trend"
    /\ categorize_level(40000) = "very_deep"

(***************************************************************************)
(* A RainfallAnalyzer feeding an AlertEngine: check_rainfall is called     *)
(* with the analyzer's annual_deviation_pct of a unit and year.  The       *)
(* records give deviations of -81.2, -60, -40, -39.8, -20, 30, 59.8 and    *)
(* 60 %, a year without normal rainfall, and units and years without       *)
(* records.                                                                *)
(***************************************************************************)
CheckAnnualRainfallCall(panchayat_id, year) ==
    LET deviation == annual_deviation_pct(rain_records, panchayat_id, year)
    IN  /\ call' = [op |-> "check_rainfall", panchayat_id |-> panchayat_id,
                    deviation_pct |-> deviation, year |-> year]
        /\ Returns(check_rainfall(alert_counter, panchayat_id, deviation))

NextRiskAlerts ==
    \/ /\ Len(rain_records) < MaxRainRecords
       /\ \E record \in { r \in RainRecords :
                            r.rainfall_mm \in {40000, 50000, 60000, 60200, 80000,
                                               130000, 159800, 160000} }
                        \cup
                        { [ panchayat_id |-> "GP002", year |-> 2023,
                            normal_mm |-> 16000, rainfall_mm |-> 3000,
                            month |-> 7 ] } :
              RainfallAddCall(record)
    \/ \E panchayat_id \in LookupPanchayatIds, year \in RainYears :
           DroughtRiskCall(panchayat_id, year)
    \/ \E panchayat_id \in LookupPanchayatIds, year \in RainYears :
           FloodRiskCall(panchayat_id, year)
    \/ /\ alert_counter < MaxAlerts
       /\ \E panchayat_id \in LookupPanchayatIds, year \in RainYears :
              CheckAnnualRainfallCall(panchayat_id, year)

SpecRiskAlerts == Init /\ [][NextRiskAlerts]_vars

\* The categories of the alerts in alerts.
Categories(alerts) == { alerts[i].category : i \in 1..Len(alerts) }

(***************************************************************************)
(* C29.  For every unit and year, drought_risk and flood_risk are never    *)
(* both different from normal; check_rainfall on annual_deviation_pct of   *)
(* the unit and year returns a drought alert iff drought_risk is           *)
(* severe_drought or moderate_drought and a flood alert iff flood_risk is  *)
(* high_flood_risk; mild_drought and moderate_flood_risk raise no alert;   *)
(* and a unit or year without records is normal for both and raises none.  *)
(***************************************************************************)
C29_RiskMatchesAlert ==
    /\ \A u \in LookupPanchayatIds, y \in RainYears :
          \/ drought_risk(rain_records, u, y) = "normal"
          \/ flood_risk(rain_records, u, y) = "normal"
    /\ Checked("check_rainfall") =>
          LET drought == drought_risk(rain_records, call.panchayat_id, call.year)
              flood == flood_risk(rain_records, call.panchayat_id, call.year)
              recorded == \E i \in 1..Len(rain_records) :
                              /\ rain_records[i].panchayat_id = call.panchayat_id
                              /\ rain_records[i].year = call.year
          IN  /\ "drought" \in Categories(ret)
                    <=> drought \in {"severe_drought", "moderate_drought"}
              /\ "flood" \in Categories(ret) <=> flood = "high_flood_risk"
              /\ Categories(ret) \subseteq {"drought", "flood"}
              /\ drought = "mild_drought" => ret = <<>>
              /\ flood = "moderate_flood_risk" => ret = <<>>
              /\ ~recorded => /\ drought = "normal"
                              /\ flood = "normal"
                              /\ ret = <<>>

\* 30 mm against a normal of 160 mm: the deviation is -81.2 %, drought_risk
\* is severe_drought and check_rainfall has returned one CRITICAL drought
\* alert.
C29_Witness ==
    /\ Checked("check_rainfall")
    /\ call.deviation_pct = -812
    /\ drought_risk(rain_records, call.panchayat_id, call.year) = "severe_drought"
    /\ Len(ret) = 1
    /\ ret[1].level = CRITICAL
    /\ ret[1].category = "drought"

\* Exactly 60 % above normal: high_flood_risk and one flood alert.
C29_FloodWitness ==
    /\ Checked("check_rainfall")
    /\ call.deviation_pct = 600
    /\ flood_risk(rain_records, call.panchayat_id, call.year) = "high_flood_risk"
    /\ Len(ret) = 1
    /\ ret[1].category = "flood"

(***************************************************************************)
(* One SourceManager under re-registration: two ids, each registered and   *)
(* registered again in either unit, functional or not, with a yield of     *)
(* 3000 or 5000, and the per-unit queries in between.                      *)
(***************************************************************************)
NextReregister ==
    \/ \E source \in { s \in Sources :
                          /\ s.source_id \in {"S1", "S2"}
                          /\ s.current_yield_lpd \in {3000, 5000} } :
           RegisterCall(source)
    \/ \E panchayat_id \in LookupPanchayatIds :
           SourceByPanchayatCall(panchayat_id)
    \/ \E panchayat_id \in LookupPanchayatIds :
           FunctionalSourcesCall(panchayat_id)
    \/ \E panchayat_id \in LookupPanchayatIds :
           TotalSupplyLpdCall(panchayat_id)

SpecReregister == Init /\ [][NextReregister]_vars

\* The units in whose by_panchayat list srcs shows a source of this id.
UnitsListing(srcs, source_id) ==
    { u \in LookupPanchayatIds :
        \E s \in ElementsOf(by_panchayat(srcs, u)) : s.source_id = source_id }

\* by_panchayat(srcs, unit) without the source of this id.
ListedWithout(srcs, unit, source_id) ==
    LET Other(s) == s.source_id # source_id
    IN  SelectSeq(by_panchayat(srcs, unit), Other)

\* The yield that the source of this id adds to the total supply of unit.
SupplyFrom(srcs, unit, source_id) ==
    LET Counted(s) == s.source_id = source_id /\ s.is_functional
        counted == SelectSeq(by_panchayat(srcs, unit), Counted)
    IN  SumSeq([i \in 1..Len(counted) |-> counted[i].current_yield_lpd])

(***************************************************************************)
(* C30.  In every reachable SourceManager state each registered source id  *)
(* is listed by by_panchayat of exactly one unit, the unit of its most     *)
(* recent registration: a register call lists the source in its unit and   *)
(* in no other, so re-registering an id under a different unit removes it  *)
(* from the former unit's by_panchayat, functional_sources and             *)
(* total_supply_lpd; and registering a source whose id is new leaves the   *)
(* lists and totals of every other unit unchanged.                         *)
(***************************************************************************)
C30_OneUnitPerSource ==
    [][ (pc' = "returned" /\ call'.op = "register") =>
          LET source == call'.source
              id == source.source_id
          IN  /\ \A other \in SourceIdsOf(sources') :
                    /\ Cardinality(UnitsListing(sources', other)) = 1
                    /\ \A u \in UnitsListing(sources', other) :
                          Len(by_panchayat(sources', u))
                              = Len(ListedWithout(sources', u, other)) + 1
              /\ UnitsListing(sources', id) = {source.panchayat_id}
              /\ source \in ElementsOf(by_panchayat(sources', source.panchayat_id))
              /\ \A u \in LookupPanchayatIds \ {source.panchayat_id} :
                    /\ by_panchayat(sources', u) = ListedWithout(sources, u, id)
                    /\ \A s \in ElementsOf(functional_sources(sources', u)) :
                          s.source_id # id
                    /\ total_supply_lpd(sources', u)
                           = total_supply_lpd(sources, u)
                             - SupplyFrom(sources, u, id)
                    /\ id \notin SourceIdsOf(sources) =>
                          /\ by_panchayat(sources', u) = by_panchayat(sources, u)
                          /\ functional_sources(sources', u)
                                 = functional_sources(sources, u)
                          /\ total_supply_lpd(sources', u)
                                 = total_supply_lpd(sources, u)
      ]_vars

\* S1 was registered first and S2 after it; S1 has just been registered
\* again, now in GP002, and GP001 lists nothing and supplies nothing.
C30_Witness ==
    /\ Checked("register")
    /\ Len(sources) = 2
    /\ sources[1] = call.source
    /\ call.source.source_id = "S1"
    /\ call.source.panchayat_id = "GP002"
    /\ sources[2].panchayat_id = "GP002"
    /\ by_panchayat(sources, "GP001") = <<>>
    /\ total_supply_lpd(sources, "GP001") = 0

====
